---- MODULE Spec2Model ----
(***************************************************************************)
(* Highlight detection engine of MRSugara/highlighter:                     *)
(*   src/app/services/highlight_ai.py      segment analysis, window        *)
(*                                         builder, gates, ranking         *)
(*   src/app/services/editorial_memory.py  editorial bias layer            *)
(*                                                                         *)
(* Representation.                                                         *)
(*  - A text is a sequence of tokens.  A token is a lower-case word of     *)
(*    Vocab or the punctuation token "?" (written apart: "berapa ?").      *)
(*    No token of Vocab properly contains a marker string of the source,   *)
(*    so str.startswith / str.endswith / "m in text" on the text are tests *)
(*    on its first, last or any token, and a regex with \b and \s+ is a    *)
(*    test on adjacent tokens.                                             *)
(*  - Times are integers in tenths of a second (7.0 s = 70, 0.5 s = 5);    *)
(*    the source's float arithmetic on these values is modelled as exact   *)
(*    decimal arithmetic.                                                  *)
(*  - A ratio test a / b >= 0.30 is written 100 * a >= 30 * b.             *)
(***************************************************************************)
EXTENDS Integers, Sequences, FiniteSets, TLC

(***************************************************************************)
(* Generic helpers                                                         *)
(***************************************************************************)
Max2(a, b) == IF a >= b THEN a ELSE b
Min2(a, b) == IF a <= b THEN a ELSE b
Abs(x) == IF x < 0 THEN -x ELSE x
HasAny(ws, S) == \E i \in 1..Len(ws) : ws[i] \in S
CountIn(ws, S) == Cardinality({i \in 1..Len(ws) : ws[i] \in S})
CountNotIn(ws, S) == Cardinality({i \in 1..Len(ws) : ws[i] \notin S})
B2I(b) == IF b THEN 1 ELSE 0

\* round() of num/den to the nearest integer, ties to even (Python 3)
RoundHalfEven(num, den) ==
  LET q == num \div den
      r == num % den
  IN IF 2 * r < den THEN q
     ELSE IF 2 * r > den THEN q + 1
     ELSE IF q % 2 = 0 THEN q ELSE q + 1

\* a token that is a word (str.isalnum characters or "-"), not punctuation
Punct == {"?", "!"}
IsWord(w) == w \notin Punct

\* tokens of Vocab that contain a decimal digit / the digit 1
DigitTokens == {"1", "5", "50"}
OneTokens == {"1"}

(***************************************************************************)
(* _clean_transcript_text, _tokenize, _filler_and_stopwords                *)
(***************************************************************************)
RECURSIVE _clean_transcript_text(_)
_clean_transcript_text(t) ==
  IF Len(t) <= 1 THEN t
  ELSE LET rest == _clean_transcript_text(Tail(t))
       IN IF t[1] = t[2] THEN rest ELSE <<t[1]>> \o rest

_tokenize(t) == SelectSeq(t, IsWord)

filler ==
  {"eee", "ee", "eh", "em", "umm", "hmm", "nah", "oke", "ok", "ya", "yah",
   "anu", "gitu", "gini", "kayak", "kaya", "nih", "sih", "deh", "dong", "kan",
   "aja", "lah", "loh", "lho", "tau", "tahu", "maksudnya"}

stop ==
  {"yang", "dan", "atau", "di", "ke", "dari", "untuk", "pada", "itu", "ini", "nya",
   "saya", "aku", "kita", "kami", "kamu", "lu", "gue", "dia", "mereka",
   "jadi", "terus", "lalu", "kemudian", "nah", "oke", "karena", "sebab", "biar",
   "dengan", "dalam", "sebagai", "adalah", "ialah", "akan", "sudah", "udah", "belum",
   "bisa", "nggak", "tidak", "ga", "gak", "pun", "kok", "juga", "aja", "lagi"}

(***************************************************************************)
(* _emotional_signal_score: the score (first component)                    *)
(***************************************************************************)
fear_urgency ==
  {"takut", "khawatir", "cemas", "panik", "bahaya", "ancam", "darurat", "segera",
   "urgent", "krusial", "parah", "fatal", "berisiko", "resiko", "hancur"}
success_relief ==
  {"berhasil", "sukses", "menang", "naik", "tembus", "lega", "akhirnya", "tenang",
   "selamat"}
failure_frustration ==
  {"gagal", "kecewa", "frustrasi", "capek", "lelah", "stress", "stres", "marah",
   "kesal", "kacau", "susah", "sulit", "berantakan", "nyesel", "menyerah"}

_emotional_signal_score(text) ==
  LET words == _tokenize(text)
  IN IF Len(words) = 0 THEN 0
     ELSE (IF HasAny(words, fear_urgency) THEN 2 ELSE 0)
        + (IF HasAny(words, success_relief) THEN 1 ELSE 0)
        + (IF HasAny(words, failure_frustration) THEN 1 ELSE 0)
        + (IF HasAny(text, {"!"}) THEN 1 ELSE 0)

(***************************************************************************)
(* _is_punchline                                                           *)
(***************************************************************************)
strong_openers ==
  {"masalahnya", "kenyataannya", "faktanya", "intinya", "kuncinya",
   "sebenarnya", "artinya", "poinnya", "kesalahannya", "solusinya"}
absolute_language ==
  {"selalu", "kebanyakan", "semua", "pasti", "cuma", "hanya", "satu-satunya",
   "never", "nggak", "tidak", "gak", "ga", "bukan", "tanpa"}
punch_verbs ==
  {"harus", "wajib", "jangan", "berhenti", "fokus", "ingat", "pastikan", "hindari"}

\* polar_phrases: "tidak pernah", "nggak pernah", "gak pernah", "gak ada", "tidak ada"
\* as substrings of the text ("gak ..." also inside "nggak ...")
polar_phrase(t) ==
  \E i \in 1..(Len(t) - 1) :
     \/ t[i] \in {"tidak", "nggak", "gak"} /\ t[i + 1] = "pernah"
     \/ t[i] \in {"gak", "nggak", "tidak"} /\ t[i + 1] = "ada"

_is_punchline(text) ==
  LET words == _tokenize(text)
      n == Len(words)
      has_opener == Len(text) > 0 /\ text[1] \in strong_openers
      has_absolute == HasAny(words, absolute_language) \/ polar_phrase(text)
      has_take == HasAny(words, punch_verbs)
      has_emotion == _emotional_signal_score(text) > 0
      signal_count == B2I(has_opener) + B2I(has_absolute) + B2I(has_take) + B2I(has_emotion)
  IN IF Len(text) = 0 THEN FALSE
     ELSE IF n < 6 \/ n > 18 THEN FALSE
     ELSE signal_count >= 2 \/ (signal_count >= 1 /\ 6 <= n /\ n <= 12)

(***************************************************************************)
(* _is_hanging_start, _is_incomplete_end                                   *)
(***************************************************************************)
hanging_starts ==
  {"jadi", "karena", "kalau", "terus", "lalu", "kemudian",
   "makanya", "soalnya", "tapi", "namun", "atau", "dan",
   "sebab", "maka", "sehingga", "nah", "oke"}

_is_hanging_start(text) ==
  IF Len(text) = 0 THEN TRUE ELSE text[1] \in hanging_starts

incomplete_endings ==
  {"karena", "kalau", "jadi", "makanya", "yaitu", "seperti",
   "adalah", "itu", "ini", "artinya", "berarti"}
question_markers == {"hah", "pertanyaannya", "kenapa", "bagaimana"}

_is_incomplete_end(text) ==
  LET words == _tokenize(text)
  IN IF Len(text) = 0 THEN TRUE
     ELSE IF text[Len(text)] \in question_markers THEN TRUE
     ELSE IF HasAny(text, {"?"}) THEN TRUE
     ELSE IF Len(words) = 0 THEN TRUE
     ELSE words[Len(words)] \in incomplete_endings

(***************************************************************************)
(* _is_educational_content                                                 *)
(***************************************************************************)
units ==
  {"gram", "kilogram", "kg", "liter", "meter", "km", "cm",
   "persen", "percent", "kali", "bagi", "dikali", "dibagi",
   "ribu", "juta", "miliar", "rupiah", "dollar"}

\* r"\bkalau\s+.+\s+maka\b", r"\bjika\s+.+\s+maka\b", r"\bartinya\b", r"\bberarti\b",
\* r"\bsetara\s+dengan\b", r"\bsama\s+dengan\b"
reasoning_phrases(t) ==
  \/ \E i \in 1..Len(t) : \E j \in 1..Len(t) :
        t[i] \in {"kalau", "jika"} /\ t[j] = "maka" /\ j >= i + 2
  \/ HasAny(t, {"artinya", "berarti"})
  \/ \E i \in 1..(Len(t) - 1) : t[i] \in {"setara", "sama"} /\ t[i + 1] = "dengan"

_is_educational_content(text) ==
  LET words == _tokenize(text)
      has_numbers == HasAny(text, DigitTokens)
      has_units == HasAny(words, units)
      has_reasoning == reasoning_phrases(text)
  IN IF Len(text) = 0 THEN FALSE
     ELSE (has_numbers /\ has_units) \/ (has_numbers /\ has_reasoning)

(***************************************************************************)
(* _calculate_core_editorial_pass: (passes, core_score)                    *)
(***************************************************************************)
\* token i of t is one of S and the next token is a word: r"\bS\s+(itu\s+)?\b"
then_word(t, S) ==
  \E i \in 1..(Len(t) - 1) : t[i] \in S /\ IsWord(t[i + 1])
\* r"\bS\s+(itu\s+)?adalah\b"
then_adalah(t, S) ==
  \E i \in 1..(Len(t) - 1) :
     /\ t[i] \in S
     /\ \/ t[i + 1] = "adalah"
        \/ i + 2 <= Len(t) /\ t[i + 1] = "itu" /\ t[i + 2] = "adalah"
\* r"\bS\s+\w+\s+(itu|adalah)\b"
then_w_itu(t, S) ==
  \E i \in 1..(Len(t) - 2) :
     t[i] \in S /\ IsWord(t[i + 1]) /\ t[i + 2] \in {"itu", "adalah"}

imperative_markers == {"harus", "wajib", "jangan", "pastikan", "ingat", "fokus", "hindari"}
reasoning_markers == {"artinya", "berarti", "jadi", "makanya", "hasilnya", "itulah", "begitulah"}
core_openers == {"masalahnya", "kuncinya", "intinya", "sebenarnya", "faktanya", "kenyataannya", "solusinya"}
core_keywords_pass ==
  {"penting", "kunci", "kuncinya", "masalah", "solusi", "kesalahan",
   "intinya", "sebenarnya", "faktanya", "kenyataannya", "rahasia"}

is_declarative_pass(t) ==
  \/ then_adalah(t, {"kunci", "kuncinya"})
  \/ then_word(t, {"intinya"})
  \/ then_word(t, {"artinya"})
  \/ then_word(t, {"fakta", "faktanya"})
  \/ then_word(t, {"kenyataan", "kenyataannya"})
  \/ then_adalah(t, {"masalah", "masalahnya"})
  \/ then_word(t, {"solusi", "solusinya"})
  \/ then_w_itu(t, {"rahasia", "rahasianya"})
  \/ then_w_itu(t, {"sebenarnya"})

\* a scorer that takes every quotient by the word count without looking at it
has_words_unchecked(words) == TRUE

\* `if words:` in front of every quotient by the word count that _score_text takes
has_words(words) == Len(words) > 0

\* the word counts _score_text divides by while it scores text: none for a text
\* without words
word_count_divisors(text) ==
  LET words == _tokenize(text)
  IN IF has_words(words) THEN {Len(words)} ELSE {}

\* meaning density: content_ratio >= 0.55 and len(content_words) >= 5
meaning_dense(words) ==
  LET content == CountNotIn(words, filler \cup stop)
  IN has_words(words) /\ 100 * content >= 55 * Len(words) /\ content >= 5

core_score_of(text) ==
  LET words == _tokenize(text)
      edu == IF _is_educational_content(text)
             THEN IF HasAny(words, reasoning_markers) /\ Len(words) >= 10 THEN 5
                  ELSE IF Len(words) >= 8 THEN 3 ELSE 0
             ELSE 0
  IN IF Len(words) = 0 THEN 0
     ELSE edu
        + (IF is_declarative_pass(text) THEN 4 ELSE 0)
        + (IF HasAny(words, imperative_markers) THEN 3 ELSE 0)
        + (IF text[1] \in core_openers THEN 3 ELSE 0)
        + (IF HasAny(words, core_keywords_pass) THEN 2 ELSE 0)
        + (IF _is_punchline(text) THEN 3 ELSE 0)
        + (IF meaning_dense(words) THEN 2 ELSE 0)

_calculate_core_editorial_pass(text) ==
  LET cs == core_score_of(text)
  IN [passes |-> cs >= 3, core_score |-> cs]

(***************************************************************************)
(* _score_text: total_score (first component)                              *)
(***************************************************************************)
core_keywords ==
  {"penting", "kunci", "kuncinya", "masalah", "solusi", "kesalahan",
   "intinya", "sebenarnya", "faktanya", "kenyataannya", "artinya"}
\* emphasis_starts as prefixes of the text: "jadi", "intinya", "yang paling", "ingat",
\* "sebenarnya", "singkatnya", "poin", "kunci", "masalahnya"
emphasis_first ==
  {"jadi", "intinya", "ingat", "sebenarnya", "singkatnya", "poin", "poinnya",
   "kunci", "kuncinya", "masalahnya"}
first_person == {"saya", "aku", "kita", "kami", "gue"}
claim_words == {"kunci", "penting", "masalah", "solusi", "harus", "jangan", "intinya"}
support_words == {"karena", "sebab", "soalnya", "makanya", "jadi", "biar", "supaya"}
question_starts == {"apa", "mengapa", "kenapa", "bagaimana", "kapan", "dimana", "berapa"}
answer_markers == {"karena", "jawabannya", "ternyata", "sebenarnya", "faktanya"}
storytelling_markers ==
  {"waktu", "dulu", "pas", "kemarin", "terus", "lalu", "kemudian", "abis", "habis"}

is_declarative(t) ==
  \/ then_adalah(t, {"kunci", "kuncinya"})
  \/ then_word(t, {"intinya"})
  \/ then_word(t, {"artinya"})
  \/ \E i \in 1..(Len(t) - 2) :
        /\ t[i] = "yang" /\ t[i + 1] = "terjadi"
        /\ \/ t[i + 2] = "adalah"
           \/ i + 3 <= Len(t) /\ t[i + 2] = "itu" /\ t[i + 3] = "adalah"
  \/ then_word(t, {"poin", "poinnya"})
  \/ then_word(t, {"pelajaran", "pelajarannya"})
  \/ \E i \in 1..(Len(t) - 2) :
        t[i] = "masalah" /\ t[i + 1] = "utamanya" /\ IsWord(t[i + 2])
  \/ then_word(t, {"solusi", "solusinya"})
  \/ then_word(t, {"fakta", "faktanya"})
  \/ then_word(t, {"kenyataan", "kenyataannya"})

emphasis_start(t) ==
  /\ Len(t) > 0
  /\ \/ t[1] \in emphasis_first
     \/ Len(t) >= 2 /\ t[1] = "yang" /\ t[2] = "paling"

score_core(text) ==
  LET words == _tokenize(text)
      n == Len(words)
      edu == IF _is_educational_content(text)
             THEN IF HasAny(words, reasoning_markers) /\ n >= 15 THEN 5
                  ELSE IF n >= 10 THEN 3 ELSE 0
             ELSE 0
  IN (IF is_declarative(text) THEN 4 ELSE 0)
   + (IF HasAny(words, core_keywords) THEN 3 ELSE 0)
   + (IF HasAny(words, imperative_markers) THEN 3 ELSE 0)
   + (IF _is_punchline(text) THEN 3 ELSE 0)
   + edu
   + (IF meaning_dense(words) THEN 2 ELSE 0)

score_support(text) ==
  LET words == _tokenize(text)
      em_score == _emotional_signal_score(text)
  IN (IF em_score > 0 THEN Min2(em_score, 2) ELSE 0)
   + (IF emphasis_start(text) THEN 1 ELSE 0)
   + (IF HasAny(words, first_person) THEN 1 ELSE 0)
   + (IF HasAny(words, claim_words) /\ HasAny(words, support_words) THEN 1 ELSE 0)

score_penalty(text) ==
  LET words == _tokenize(text)
      n == Len(words)
      filler_count == CountIn(words, filler)
      is_question == HasAny(text, {"?"}) \/ (Len(text) > 0 /\ text[1] \in question_starts)
      has_story == HasAny(words, storytelling_markers)
      has_claim == HasAny(words, claim_words)
  IN (IF has_words(words) /\ 100 * filler_count >= 40 * n THEN -4
      ELSE IF has_words(words) /\ 100 * filler_count >= 30 * n THEN -2 ELSE 0)
   + (IF is_question /\ ~HasAny(words, answer_markers) THEN -3 ELSE 0)
   + (IF has_story /\ ~has_claim /\ ~is_declarative(text) /\ n >= 8 THEN -3 ELSE 0)
   + (IF _is_punchline(text) THEN 0 ELSE IF n < 5 THEN -3 ELSE IF n > 30 THEN -2 ELSE 0)
   + (IF has_words(words) /\ 100 * CountIn(words, stop) >= 70 * n /\ score_core(text) <= 2
      THEN -2 ELSE 0)

_score_text(text) == score_core(text) + score_support(text) + score_penalty(text)

(***************************************************************************)
(* _classify                                                               *)
(***************************************************************************)
imperative == {"harus", "wajib", "jangan", "pastikan", "ingat", "fokus", "hindari", "lakukan"}
warning_signals ==
  {"bahaya", "risiko", "resiko", "ancaman", "masalah", "kesalahan",
   "salah", "fatal", "hancur", "rugi", "gagal", "kacau", "berantakan"}
past_tense == {"dulu", "waktu", "pengalaman", "pelajaran", "ternyata"}
insight_signals ==
  {"kunci", "kuncinya", "intinya", "sebenarnya", "faktanya",
   "kenyataannya", "artinya", "poinnya", "alasannya"}
motivational_signals ==
  {"semangat", "percaya", "yakin", "pasti", "bisa", "sukses",
   "berhasil", "terus", "lanjut", "jangan", "menyerah"}

adjacent(t, A, B) == \E i \in 1..(Len(t) - 1) : t[i] \in A /\ t[i + 1] \in B

_classify(text) ==
  LET w == _tokenize(text)
      has_warning ==
        \/ HasAny(w, warning_signals)
        \/ HasAny(text, {"hati-hati", "hatihati"})
        \/ adjacent(text, {"kalau"}, {"tidak", "nggak", "gak"})
        \/ adjacent(text, {"jangan"}, {"sampai"})
      has_lesson ==
        \/ adjacent(text, {"saya"}, {"belajar", "dapat", "dapet"})
        \/ adjacent(text, {"pengalaman"}, {"saya"})
        \/ adjacent(text, {"dulu"}, {"saya"})
        \/ adjacent(text, {"waktu"}, {"saya"})
        \/ \E i \in 1..(Len(text) - 2) :
              text[i] = "waktu" /\ text[i + 1] = "itu" /\ text[i + 2] = "saya"
        \/ HasAny(text, {"pelajaran", "pelajarannya"})
        \/ (HasAny(w, past_tense) /\ HasAny(w, {"saya", "aku", "gue", "kita"}))
      has_insight ==
        \/ HasAny(w, insight_signals)
        \/ adjacent(text, {"yang"}, {"penting", "perlu"})
        \/ adjacent(text, {"masalah"}, {"utama"})
      has_motivational ==
        \/ Cardinality({s \in motivational_signals : HasAny(w, {s})}) >= 2
        \/ adjacent(text, {"kamu", "pasti"}, {"bisa"})
        \/ adjacent(text, {"jangan"}, {"menyerah"})
  IN IF _is_educational_content(text) THEN "educational"
     ELSE IF HasAny(w, imperative) THEN "hard_advice"
     ELSE IF has_warning THEN "warning"
     ELSE IF has_lesson THEN "lesson_learned"
     ELSE IF has_insight THEN "insight"
     ELSE IF has_motivational THEN "motivational"
     ELSE "insight"

(***************************************************************************)
(* _insight_components, _has_insight_structure                             *)
(***************************************************************************)
reason_markers == {"karena", "sebab", "artinya", "berarti", "jadi", "makanya"}
implication_markers == {"hasilnya", "pelajarannya", "dampaknya", "sehingga", "maka"}

_insight_components(text) ==
  LET cp == _calculate_core_editorial_pass(text)
  IN IF Len(text) = 0
     THEN [claim |-> FALSE, reason |-> FALSE, implication |-> FALSE]
     ELSE [claim |-> _is_punchline(text) \/ cp.passes \/ cp.core_score >= 4,
           reason |-> HasAny(text, reason_markers),
           implication |-> HasAny(text, implication_markers)]

_has_insight_structure(text) ==
  LET c == _insight_components(text)
  IN B2I(c.claim) + B2I(c.reason) + B2I(c.implication) >= 2

(***************************************************************************)
(* _check_informational_completeness (is_complete) of a list of segment    *)
(* texts                                                                   *)
(***************************************************************************)
RECURSIVE JoinTexts(_)
JoinTexts(texts) ==
  IF Len(texts) = 0 THEN <<>> ELSE texts[1] \o JoinTexts(Tail(texts))

premise_markers ==
  {"kalau", "jika", "misalnya", "contoh", "kita", "ada", "punya",
   "awalnya", "pertama", "mulai"}
transformation_markers ==
  {"kali", "bagi", "dikali", "dibagi", "tambah", "kurang",
   "artinya", "berarti", "jadi", "setara", "sama"}
conclusion_markers ==
  {"jadi", "hasilnya", "kesimpulannya", "artinya", "berarti",
   "itulah", "makanya", "sehingga", "maka"}

\* r"\bjadi\s+.+\s+(adalah|itu)\b", r"\bartinya\s+.+\b", r"\bberarti\s+.+\b"
conclusion_patterns(t) ==
  \/ \E i \in 1..Len(t) : \E j \in 1..Len(t) :
        t[i] = "jadi" /\ t[j] \in {"adalah", "itu"} /\ j >= i + 2
  \/ \E i \in 1..Len(t) : \E j \in 1..Len(t) :
        t[i] \in {"artinya", "berarti"} /\ j > i /\ IsWord(t[j])

\* a segment that holds "?" or "hah"
is_question_segment(seg) == HasAny(seg, {"?", "hah"})

\* segments after the first question segment that are not question segments
segments_after_question(texts) ==
  {i \in 1..Len(texts) :
     /\ ~is_question_segment(texts[i])
     /\ \E k \in 1..(i - 1) : is_question_segment(texts[k])}

_check_informational_completeness(window_segments) ==
  LET combined_text == JoinTexts(window_segments)
      words == _tokenize(combined_text)
      has_transformation == HasAny(words, transformation_markers)
      has_conclusion == HasAny(words, conclusion_markers) \/ conclusion_patterns(combined_text)
      ends_on_question == Len(combined_text) > 0 /\ combined_text[Len(combined_text)] = "?"
      found_q == \E k \in 1..Len(window_segments) : is_question_segment(window_segments[k])
  IN IF Len(window_segments) = 0 THEN FALSE
     ELSE IF _is_educational_content(combined_text)
     THEN IF ~has_transformation THEN FALSE
          ELSE IF ~has_conclusion THEN FALSE
          ELSE IF ends_on_question /\ found_q
                  /\ Cardinality(segments_after_question(window_segments)) < 1
               THEN FALSE
          ELSE TRUE
     ELSE IF _is_incomplete_end(combined_text) THEN FALSE
          ELSE IF Len(window_segments) < 2 THEN FALSE
          ELSE TRUE

(***************************************************************************)
(* Transcript segments: [start, duration, text], times in tenths of a      *)
(* second.  Indices are 1-based here (segment i of the model is            *)
(* transcript[i - 1] of the source).                                       *)
(***************************************************************************)
seg_start(T, i) == T[i].start
seg_end(T, i) == T[i].start + T[i].duration

RECURSIVE window_text_of(_, _, _)
window_text_of(T, l, r) ==
  IF l > r THEN <<>> ELSE T[l].text \o window_text_of(T, l + 1, r)

window_segment_texts(T, l, r) == [k \in 1..(r - l + 1) |-> T[l + k - 1].text]

(***************************************************************************)
(* _build_window_around, one loop iteration per step.                      *)
(* A window state w is [pc, l, r, cnt, expanded]; P is the window spec     *)
(* [min_duration, max_duration, pre_roll, post_roll, max_pre_context,      *)
(* max_post_context].                                                      *)
(***************************************************************************)
\* str.startswith(filler_starts) is a string-prefix test: the first tokens of
\* the lexicon that begin with one of the eleven prefixes
filler_starts == {"jadi", "jadinya", "nah", "oke", "ok", "ya", "yah", "yang", "eee", "eh", "em", "emang", "hmm", "terus", "lalu"}
filler_ends == {"ya", "yah", "kan", "dong", "deh", "sih", "gitu", "gini", "nih"}
transitional_endings == {"jadi", "artinya", "berarti", "makanya", "jadinya", "sehingga", "maka"}
\* tokens that contain "jadi", "maka", "kalau", "berapa", "hitung" as a substring
ContainsJadi == {"jadi", "jadinya"}
ContainsMaka == {"maka", "makanya"}
\* "itulah", "begitulah", "jadi", "kesimpulannya" as substrings of the next segment
next_conclusion_tokens == {"itulah", "begitulah", "kesimpulannya"} \cup ContainsJadi
\* "juta", "ribu", "persen", "gram", "kilogram", "liter" as substrings
unit_substrings == {"juta", "ribu", "persen", "gram", "kilogram", "liter"}

clamp_center(T, center_index) == Max2(1, Min2(Len(T), center_index))

is_valuable_segment(T, i) ==
  LET seg_text == T[i].text
      toks == _tokenize(seg_text)
  IN IF Len(seg_text) = 0 THEN FALSE
     ELSE IF _calculate_core_editorial_pass(seg_text).passes THEN TRUE
     ELSE IF Len(toks) = 0 THEN FALSE
     ELSE 100 * CountIn(toks, filler) < 30 * Len(toks)

is_weak_lead(T, i) ==
  LET seg_text == T[i].text
      cp == _calculate_core_editorial_pass(seg_text)
      toks == _tokenize(seg_text)
  IN IF Len(seg_text) = 0 THEN TRUE
     ELSE IF cp.passes \/ cp.core_score >= 3 THEN FALSE
     ELSE IF _is_hanging_start(seg_text) THEN TRUE
     ELSE IF seg_text[1] \in filler_starts THEN TRUE
     ELSE IF Len(toks) <= 2 THEN TRUE
     ELSE 100 * CountIn(toks, filler) >= 35 * Max2(1, Len(toks))

is_weak_tail(T, i) ==
  LET seg_text == T[i].text
      cp == _calculate_core_editorial_pass(seg_text)
      toks == _tokenize(seg_text)
  IN IF Len(seg_text) = 0 THEN TRUE
     ELSE IF cp.passes \/ cp.core_score >= 3 THEN FALSE
     ELSE IF Len(toks) <= 2 THEN TRUE
     ELSE IF toks[Len(toks)] \in filler_ends /\ Len(toks) <= 6 THEN TRUE
     ELSE 100 * CountIn(toks, filler) >= 35 * Max2(1, Len(toks))

is_educational_anchor(T, c) ==
  _is_educational_content(T[c].text) \/ _classify(T[c].text) = "educational"

WInit(T, center_index) ==
  [pc |-> "pass1", l |-> clamp_center(T, center_index), r |-> clamp_center(T, center_index),
   cnt |-> 0, expanded |-> TRUE]

\* PASS 1: expand right first, then left, up to min_duration
can_go_right(T, c, P, w) ==
  w.r < Len(T) /\ (seg_end(T, w.r + 1) - seg_end(T, c)) <= P.max_post_context

\* the left cap measured from the edge of the window, not from the anchor
can_go_left_from_edge(T, c, P, w) ==
  w.l > 1 /\ (seg_start(T, w.l) - seg_start(T, w.l - 1)) <= P.max_pre_context

can_go_left(T, c, P, w) ==
  w.l > 1 /\ (seg_start(T, c) - seg_start(T, w.l - 1)) <= P.max_pre_context

\* pass 1 without its final break
Pass1Step_no_break(T, c, P, w) ==
  IF (seg_end(T, w.r) - seg_start(T, w.l)) < P.min_duration
     THEN IF can_go_right(T, c, P, w) THEN [w EXCEPT !.r = w.r + 1]
          ELSE IF can_go_left(T, c, P, w) THEN [w EXCEPT !.l = w.l - 1]
          ELSE w
     ELSE [w EXCEPT !.pc = "pass2", !.cnt = 0, !.expanded = TRUE]

Pass1Step(T, c, P, w) ==
  IF (seg_end(T, w.r) - seg_start(T, w.l)) < P.min_duration
     THEN IF can_go_right(T, c, P, w) THEN [w EXCEPT !.r = w.r + 1]
          ELSE IF can_go_left(T, c, P, w) THEN [w EXCEPT !.l = w.l - 1]
          ELSE [w EXCEPT !.pc = "pass2", !.cnt = 0, !.expanded = TRUE]
     ELSE [w EXCEPT !.pc = "pass2", !.cnt = 0, !.expanded = TRUE]

\* Second pass: opportunistic growth towards max_duration
Pass2Step(T, c, P, w) ==
  LET n == Len(T)
      max_expansions == IF is_educational_anchor(T, c) THEN 6 ELSE 4
      cur == seg_end(T, w.r) - seg_start(T, w.l)
      is_educational_window ==
        is_educational_anchor(T, c) \/ _is_educational_content(window_text_of(T, w.l, w.r))
      go_right ==
        /\ w.r < n
        /\ (seg_end(T, w.r + 1) - seg_end(T, c)) <= P.max_post_context
        /\ (seg_end(T, w.r + 1) - seg_start(T, w.l)) <= P.max_duration
        /\ (is_educational_window \/ is_valuable_segment(T, w.r + 1))
      go_left ==
        /\ w.l > 1
        /\ (seg_start(T, c) - seg_start(T, w.l - 1)) <= P.max_pre_context
        /\ (seg_end(T, w.r) - seg_start(T, w.l - 1)) <= P.max_duration
        /\ (is_educational_window \/ is_valuable_segment(T, w.l - 1))
      exit == [w EXCEPT !.pc = "insight", !.cnt = 0]
  IN IF w.expanded /\ w.cnt < max_expansions
     THEN IF cur >= P.max_duration THEN exit
          ELSE IF go_right THEN [w EXCEPT !.r = w.r + 1, !.cnt = w.cnt + 1, !.expanded = TRUE]
          ELSE IF go_left THEN [w EXCEPT !.l = w.l - 1, !.cnt = w.cnt + 1, !.expanded = TRUE]
          ELSE [w EXCEPT !.cnt = w.cnt + 1, !.expanded = FALSE]
     ELSE exit

\* Insight completion: entry test, then forced right expansion
InsightCheck(T, c, P, w) ==
  LET ic == _insight_components(window_text_of(T, w.l, w.r))
  IN IF _is_punchline(T[c].text) /\ ic.claim /\ ~(ic.reason \/ ic.implication)
     THEN [w EXCEPT !.pc = "force", !.cnt = 0]
     ELSE [w EXCEPT !.pc = "trim_left", !.cnt = 0]

ForceStep(T, c, P, w) ==
  LET n == Len(T)
      max_force_steps == 12
      ic == _insight_components(window_text_of(T, w.l, w.r + 1))
      exit == [w EXCEPT !.pc = "trim_left", !.cnt = 0]
  IN IF w.r < n /\ w.cnt < max_force_steps
     THEN IF (seg_end(T, w.r + 1) - seg_start(T, w.l)) > P.max_duration THEN exit
          ELSE IF ic.reason \/ ic.implication
               THEN [w EXCEPT !.r = w.r + 1, !.pc = "trim_left", !.cnt = 0]
               ELSE [w EXCEPT !.r = w.r + 1, !.cnt = w.cnt + 1]
     ELSE exit

\* Third pass: trim weak lead-ins from the left
TrimLeftStep(T, c, P, w) ==
  IF w.l < w.r /\ is_weak_lead(T, w.l)
        /\ (seg_end(T, w.r) - seg_start(T, w.l + 1)) >= P.min_duration
  THEN [w EXCEPT !.l = w.l + 1]
  ELSE [w EXCEPT !.pc = "trim_right"]

\* Fourth pass: trim weak endings from the right
TrimRightStep(T, c, P, w) ==
  IF w.r > w.l /\ is_weak_tail(T, w.r)
        /\ (seg_end(T, w.r - 1) - seg_start(T, w.l)) >= P.min_duration
  THEN [w EXCEPT !.r = w.r - 1]
  ELSE [w EXCEPT !.pc = "hang_check"]

\* Fifth pass: hanging-start repair
\* " ".join of the texts of segments l..r is the empty string only for a window
\* of at most one segment whose text is empty: two empty texts join to " ",
\* which _is_hanging_start does not take for an empty text
joined_is_empty(T, l, r) == r - l + 1 <= 1 /\ window_text_of(T, l, r) = <<>>

window_hanging_start(T, l, r) ==
  LET text == window_text_of(T, l, r)
  IN IF joined_is_empty(T, l, r) THEN TRUE
     ELSE Len(text) > 0 /\ text[1] \in hanging_starts

HangCheck(T, c, P, w) ==
  IF window_hanging_start(T, w.l, w.r)
  THEN [w EXCEPT !.pc = "hang", !.cnt = 0]
  ELSE [w EXCEPT !.pc = "extend", !.cnt = 0]

HangStep(T, c, P, w) ==
  LET max_trim_attempts == 5
      next_hanging == window_hanging_start(T, w.l + 1, w.r)
      next_duration == seg_end(T, w.r) - seg_start(T, w.l + 1)
      next_segments == w.r - (w.l + 1) + 1
      can_skip == (~next_hanging)
                    \/ (next_duration >= P.min_duration /\ next_segments >= 2)
      exit == [w EXCEPT !.pc = "extend", !.cnt = 0]
  IN IF w.l < w.r /\ w.cnt < max_trim_attempts
     THEN IF can_skip
          THEN IF ~next_hanging
               THEN [w EXCEPT !.l = w.l + 1, !.pc = "extend", !.cnt = 0]
               ELSE [w EXCEPT !.l = w.l + 1, !.cnt = w.cnt + 1]
          ELSE exit
     ELSE exit

\* Forced resolution extension on the right
needs_extension(T, r) ==
  LET window_end_text == T[r].text
      last == window_end_text[Len(window_end_text)]
  IN \/ _is_incomplete_end(window_end_text)
     \/ HasAny(window_end_text, {"?", "hah", "pertanyaannya"})
     \/ (Len(window_end_text) > 0 /\ last \in transitional_endings)
     \/ /\ _is_educational_content(window_end_text)
        /\ HasAny(window_end_text, DigitTokens)
        /\ r < Len(T)
        /\ HasAny(T[r + 1].text, next_conclusion_tokens)

\* the extension without its two limits
extension_allowed_always(T, c, P, w) == TRUE

\* the next segment ends within 1.5 * max_post_context of the anchor's end and
\* keeps the span within max_duration + 5 s
extension_allowed(T, c, P, w) ==
  LET \* extended_post_context = max_post_context * 1.5
      within_post == 10 * (seg_end(T, w.r + 1) - seg_end(T, c)) <= 15 * P.max_post_context
      new_dur == seg_end(T, w.r + 1) - seg_start(T, w.l)
  IN within_post /\ new_dur <= P.max_duration + 50

ExtendStep(T, c, P, w) ==
  LET n == Len(T)
      max_extension_attempts == 8
      exit == [w EXCEPT !.pc = "edu_check", !.cnt = 0]
  IN IF w.r < n /\ w.cnt < max_extension_attempts
     THEN IF needs_extension(T, w.r) /\ extension_allowed(T, c, P, w)
          THEN [w EXCEPT !.r = w.r + 1, !.cnt = w.cnt + 1]
          ELSE exit
     ELSE exit

\* Educational hard floor
is_or_likely_educational(window_text) ==
  \/ _is_educational_content(window_text)
  \/ _classify(window_text) = "educational"
  \/ HasAny(window_text, {"berapa"})
  \/ HasAny(window_text, {"hitung"})
  \/ (HasAny(window_text, {"kalau"})
        /\ (HasAny(window_text, ContainsMaka) \/ HasAny(window_text, ContainsJadi)))
  \/ (HasAny(window_text, OneTokens) /\ HasAny(window_text, unit_substrings))

EduCheck(T, c, P, w) ==
  IF is_or_likely_educational(window_text_of(T, w.l, w.r))
  THEN [w EXCEPT !.pc = "edu_floor", !.cnt = 0]
  ELSE [w EXCEPT !.pc = "final", !.cnt = 0]

EduFloorStep(T, c, P, w) ==
  LET n == Len(T)
      EDUCATIONAL_MIN == 180
      current_duration == seg_end(T, w.r) - seg_start(T, w.l)
      exit == [w EXCEPT !.pc = "final", !.cnt = 0]
  IN IF current_duration < EDUCATIONAL_MIN /\ w.r < n /\ w.cnt < 8
     THEN IF (seg_end(T, w.r + 1) - seg_end(T, c)) <= 200
               /\ (seg_end(T, w.r + 1) - seg_start(T, w.l)) <= 350
          THEN [w EXCEPT !.r = w.r + 1, !.cnt = w.cnt + 1]
          ELSE exit
     ELSE exit

FinalStep(T, c, P, w) == [w EXCEPT !.pc = "done"]

WStep(T, c, P, w) ==
  CASE w.pc = "pass1" -> Pass1Step(T, c, P, w)
    [] w.pc = "pass2" -> Pass2Step(T, c, P, w)
    [] w.pc = "insight" -> InsightCheck(T, c, P, w)
    [] w.pc = "force" -> ForceStep(T, c, P, w)
    [] w.pc = "trim_left" -> TrimLeftStep(T, c, P, w)
    [] w.pc = "trim_right" -> TrimRightStep(T, c, P, w)
    [] w.pc = "hang_check" -> HangCheck(T, c, P, w)
    [] w.pc = "hang" -> HangStep(T, c, P, w)
    [] w.pc = "extend" -> ExtendStep(T, c, P, w)
    [] w.pc = "edu_check" -> EduCheck(T, c, P, w)
    [] w.pc = "edu_floor" -> EduFloorStep(T, c, P, w)
    [] w.pc = "final" -> FinalStep(T, c, P, w)
    [] OTHER -> w

RECURSIVE WRun(_, _, _, _)
WRun(T, c, P, w) == IF w.pc = "done" THEN w ELSE WRun(T, c, P, WStep(T, c, P, w))

\* final timestamps with roll
window_start(T, P, w) == Max2(0, seg_start(T, w.l) - P.pre_roll)
window_end_unclamped(T, P, w) == seg_end(T, w.r) + P.post_roll

window_end(T, P, w) ==
  LET start == window_start(T, P, w)
      end == seg_end(T, w.r) + P.post_roll
  IN IF end <= start THEN start + 10 ELSE end

_build_window_around(T, center_index, P) ==
  LET c == clamp_center(T, center_index)
      w == WRun(T, c, P, WInit(T, center_index))
  IN [l |-> w.l, r |-> w.r, start |-> window_start(T, P, w), end |-> window_end(T, P, w)]

(***************************************************************************)
(* Input domain: transcripts are contiguous sequences of catalogue         *)
(* segments, the first one starting at a given time.                       *)
(***************************************************************************)
Catalog ==
  << [text |-> <<"intinya", "kamu", "harus", "fokus", "karena", "itu", "kunci", "sukses">>, duration |-> 70],
     [text |-> <<"intinya", "kamu", "harus", "fokus", "karena", "itu", "kunci", "sukses">>, duration |-> 700],
     [text |-> <<"eee", "jadi", "gitu", "ya">>, duration |-> 30],
     [text |-> <<"kalau", "1", "juta", "dikali", "5", "persen">>, duration |-> 70],
     [text |-> <<"hasilnya", "50", "ribu", "artinya", "untungnya", "segini">>, duration |-> 70],
     [text |-> <<"dia", "pergi", "ke", "pasar", "beli", "sayur">>, duration |-> 70],
     [text |-> <<"kamu", "harus", "fokus", "sama", "tujuan", "hidup", "kamu">>, duration |-> 50],
     [text |-> <<"hasilnya", "berapa", "?">>, duration |-> 30],
     [text |-> <<"jadi", "intinya", "kamu", "harus", "fokus">>, duration |-> 70],
     [text |-> <<"masalahnya", "orang", "sering", "lupa", "hal", "itu">>, duration |-> 50],
     [text |-> <<"faktanya", "kesalahan", "itu", "fatal">>, duration |-> 70],
     [text |-> <<"solusinya", "itu", "modal", "kecil">>, duration |-> 50] >>

RECURSIVE SumDur(_, _)
SumDur(ids, k) == IF k = 0 THEN 0 ELSE SumDur(ids, k - 1) + Catalog[ids[k]].duration

\* the catalogue segments ids back to back, the first one starting at t0
MkTranscriptAt(ids, t0) ==
  [i \in 1..Len(ids) |->
     [start |-> t0 + SumDur(ids, i - 1), duration |-> Catalog[ids[i]].duration,
      text |-> Catalog[ids[i]].text]]

MkTranscript(ids) == MkTranscriptAt(ids, 0)

(***************************************************************************)
(* editorial_memory.py: bias profiles and apply_editorial_bias.            *)
(* A dict is a function whose DOMAIN is its key set; a float that is the    *)
(* quotient of two times (hook_position) is kept as [num, den], den > 0,    *)
(* and compared by cross-multiplication.                                   *)
(***************************************************************************)
EmptyMap == [k \in {} |-> 0]
MapGet(m, k) == IF k \in DOMAIN m THEN m[k] ELSE 0

RECURSIVE SumBias(_)
SumBias(applied) == IF applied = <<>> THEN 0 ELSE Head(applied).bias + SumBias(Tail(applied))

Opt(cond, item) == IF cond THEN <<item>> ELSE <<>>

(***************************************************************************)
(* _compress_reasons and the reasons of _score_text (second component).    *)
(* A reason is a string; the reasons of _score_text are fixed strings      *)
(* without surrounding blanks, no two of which differ in case only, so     *)
(* strip() leaves them alone and the lower-case key tells them apart       *)
(* exactly as equality does.                                               *)
(***************************************************************************)
\* a priority list that puts the declarative claim first
priority_declarative_first ==
  << "Pernyataan deklaratif kuat", "Punchline berkualitas", "Punchline",
     "Hook di awal (ideal)", "Nada instruktif/tegas", "Mengandung kata kunci editorial",
     "Meaning density tinggi", "Sinyal urgensi/risiko", "Sinyal gagal/frustrasi",
     "Sinyal sukses/lega", "Awalan penekanan", "Claim+justifikasi", "Durasi optimal" >>

priority ==
  << "Punchline berkualitas", "Punchline", "Hook di awal (ideal)",
     "Pernyataan deklaratif kuat", "Nada instruktif/tegas", "Mengandung kata kunci editorial",
     "Meaning density tinggi", "Sinyal urgensi/risiko", "Sinyal gagal/frustrasi",
     "Sinyal sukses/lega", "Awalan penekanan", "Claim+justifikasi", "Durasi optimal" >>

\* r == p or r.startswith(p): of the reasons the engine writes, only those that
\* begin with "Punchline" have a priority entry as a proper prefix
reason_matches(r, p) ==
  \/ r = p
  \/ (p = "Punchline" /\ r \in {"Punchline berkualitas", "Punchline tanpa alasan/dampak"})

listed(xs, x) == \E i \in 1..Len(xs) : xs[i] = x

RECURSIVE deduped_of(_, _)
deduped_of(reasons, seen) ==
  IF reasons = <<>> THEN <<>>
  ELSE IF Head(reasons) = "" \/ listed(seen, Head(reasons))
       THEN deduped_of(Tail(reasons), seen)
       ELSE <<Head(reasons)>> \o deduped_of(Tail(reasons), Append(seen, Head(reasons)))

\* the two nested loops over priority and deduped; returned tells whether the
\* limit was reached inside them
RECURSIVE pick_by_priority(_, _, _, _, _)
pick_by_priority(deduped, limit, k, j, picked) ==
  IF k > Len(priority) THEN [picked |-> picked, returned |-> FALSE]
  ELSE IF j > Len(deduped) THEN pick_by_priority(deduped, limit, k + 1, 1, picked)
  ELSE IF reason_matches(deduped[j], priority[k]) /\ ~listed(picked, deduped[j])
       THEN IF Len(picked) + 1 >= limit
            THEN [picked |-> Append(picked, deduped[j]), returned |-> TRUE]
            ELSE pick_by_priority(deduped, limit, k, j + 1, Append(picked, deduped[j]))
       ELSE pick_by_priority(deduped, limit, k, j + 1, picked)

RECURSIVE pick_rest(_, _, _, _)
pick_rest(deduped, limit, j, picked) ==
  IF j > Len(deduped) \/ Len(picked) >= limit THEN picked
  ELSE IF ~listed(picked, deduped[j])
       THEN pick_rest(deduped, limit, j + 1, Append(picked, deduped[j]))
       ELSE pick_rest(deduped, limit, j + 1, picked)

_compress_reasons(reasons, limit) ==
  IF reasons = <<>> THEN <<>>
  ELSE LET deduped == deduped_of(reasons, <<>>)
           first == pick_by_priority(deduped, limit, 1, 1, <<>>)
       IN IF first.returned THEN first.picked
          ELSE pick_rest(deduped, limit, 1, first.picked)

emotional_reasons(text) ==
  LET words == _tokenize(text)
  IN IF Len(words) = 0 THEN <<>>
     ELSE Opt(HasAny(words, fear_urgency), "Sinyal urgensi/risiko")
            \o Opt(HasAny(words, success_relief), "Sinyal sukses/lega")
            \o Opt(HasAny(words, failure_frustration), "Sinyal gagal/frustrasi")
            \o Opt(HasAny(text, {"!"}), "Penekanan emosional")

\* the reasons list of _score_text before it is compressed
score_reasons(text) ==
  LET words == _tokenize(text)
      n == Len(words)
      em_reasons == emotional_reasons(text)
      is_question == HasAny(text, {"?"}) \/ (Len(text) > 0 /\ text[1] \in question_starts)
      has_claim == HasAny(words, claim_words)
      has_support == HasAny(words, support_words)
      is_punch == _is_punchline(text)
  IN Opt(is_declarative(text), "Pernyataan deklaratif kuat")
       \o Opt(HasAny(words, core_keywords), "Mengandung kata kunci editorial")
       \o Opt(HasAny(words, imperative_markers), "Nada instruktif/tegas")
       \o Opt(is_punch, "Punchline berkualitas")
       \o (IF ~_is_educational_content(text) THEN <<>>
           ELSE IF HasAny(words, reasoning_markers) /\ n >= 15 THEN <<"Konten edukasi lengkap">>
           ELSE IF n >= 10 THEN <<"Konten edukasi">> ELSE <<>>)
       \o Opt(meaning_dense(words), "Meaning density tinggi")
       \o (IF _emotional_signal_score(text) > 0 THEN SubSeq(em_reasons, 1, 1) ELSE <<>>)
       \o Opt(emphasis_start(text), "Awalan penekanan")
       \o Opt(HasAny(words, first_person), "Insight orang pertama")
       \o Opt(has_claim /\ has_support, "Claim+justifikasi")
       \o (IF has_words(words) /\ 100 * CountIn(words, filler) >= 40 * n
           THEN <<"Terlalu banyak filler">>
           ELSE IF has_words(words) /\ 100 * CountIn(words, filler) >= 30 * n
           THEN <<"Cukup banyak filler">> ELSE <<>>)
       \o Opt(is_question /\ ~HasAny(words, answer_markers), "Pertanyaan tanpa jawaban")
       \o Opt(HasAny(words, storytelling_markers) /\ ~has_claim /\ ~is_declarative(text) /\ n >= 8,
              "Storytelling tanpa takeaway")
       \o (IF is_punch THEN <<>>
           ELSE IF n < 5 THEN <<"Terlalu pendek">>
           ELSE IF n > 30 THEN <<"Terlalu panjang">> ELSE <<>>)
       \o Opt(has_words(words) /\ 100 * CountIn(words, stop) >= 70 * n /\ score_core(text) <= 2,
              "Terlalu banyak stopword")

\* what the segment analyzer returns: total_score and at most 3 reasons
segment_analysis(text) ==
  [total_score |-> _score_text(text), reasons |-> _compress_reasons(score_reasons(text), 3)]

\* _clamp without its bounds; the bias bound is tested against this variant
_clamp_unbounded(value, min_val, max_val) == value

_clamp(value, min_val, max_val) == Max2(min_val, Min2(max_val, value))

\* int() in place of round(): the rounding of _compute_bias is tested against
\* this variant
_compute_bias_truncated(accepted, rejected) ==
  LET total == accepted + rejected
      scaled == 3 * (accepted - rejected)
  IN IF total = 0 THEN 0
     ELSE _clamp(IF scaled >= 0 THEN scaled \div total ELSE -((-scaled) \div total), -3, 3)

\* ratio = (accepted - rejected) / total and round(ratio * 3) are float
\* operations in the source; the exact quotient rounded half to even gives the
\* same integer for all counts up to 400
_compute_bias(accepted, rejected) ==
  LET total == accepted + rejected
  IN IF total = 0 THEN 0
     ELSE _clamp(RoundHalfEven(3 * (accepted - rejected), total), -3, 3)

_duration_bucket(clip_duration) ==
  IF clip_duration < 120 THEN "<12s"
  ELSE IF clip_duration < 180 THEN "12-18s"
  ELSE IF clip_duration < 300 THEN "18-30s"
  ELSE ">30s"

\* hp <= p / 100
hook_le(hp, p) == 100 * hp.num <= p * hp.den

_hook_bucket(hook_position) ==
  IF hook_le(hook_position, 25) THEN "early"
  ELSE IF hook_le(hook_position, 55) THEN "mid"
  ELSE "late"

bias_is_zero(bp) ==
  /\ bp.feedback_count = 0
  /\ DOMAIN bp.category_bias = {}
  /\ DOMAIN bp.duration_bias = {}
  /\ bp.punchline_bias = 0
  /\ bp.early_hook_bias = 0

\* is_zero that looks at the learned fields instead of feedback_count; the
\* zero-profile return is tested against this variant
learning_is_zero_by_fields(lp) ==
  /\ DOMAIN lp.rating_bias_by_category = {}
  /\ DOMAIN lp.rating_bias_by_duration = {}
  /\ DOMAIN lp.rating_bias_by_hook_bucket = {}
  /\ lp.rating_bias_punchline = 0
  /\ lp.common_failure_patterns = {}
  /\ lp.common_success_patterns = {}

\* learning_profile is None is modelled by present = FALSE
learning_is_zero(lp) == lp.feedback_count = 0
learning_active(lp) == lp.present /\ ~learning_is_zero(lp)

\* the four history contributions taken whatever the punchline flag and the hook
\* position are; the bias sum is tested against this variant
history_biases_unconditional(a) ==
  LET bp == a.bias_profile
      bucket == _duration_bucket(a.clip_duration)
  IN << [desc |-> "category preference", bias |-> MapGet(bp.category_bias, a.category)],
        [desc |-> "duration preference", bias |-> MapGet(bp.duration_bias, bucket)],
        [desc |-> "punchline preference", bias |-> bp.punchline_bias],
        [desc |-> "early hook preference", bias |-> bp.early_hook_bias] >>

history_biases(a) ==
  LET bp == a.bias_profile
      bucket == _duration_bucket(a.clip_duration)
  IN Opt(a.category \in DOMAIN bp.category_bias /\ bp.category_bias[a.category] # 0,
         [desc |-> "category preference", bias |-> MapGet(bp.category_bias, a.category)])
     \o Opt(bucket \in DOMAIN bp.duration_bias /\ bp.duration_bias[bucket] # 0,
         [desc |-> "duration preference", bias |-> MapGet(bp.duration_bias, bucket)])
     \o Opt(a.is_punchline /\ bp.punchline_bias # 0,
         [desc |-> "punchline preference", bias |-> bp.punchline_bias])
     \o Opt(hook_le(a.hook_position, 25) /\ bp.early_hook_bias # 0,
         [desc |-> "early hook preference", bias |-> bp.early_hook_bias])

insight_failures == {"no_insight", "missing_reasoning", "no_takeaway"}
insight_successes == {"clear_insight", "strong_reasoning", "clear_takeaway"}

learning_biases(a) ==
  LET lp == a.learning_profile
      bucket == _duration_bucket(a.clip_duration)
      hook_b == _hook_bucket(a.hook_position)
      has_pref == a.category \in DOMAIN lp.preferred_duration_range
      preferred == lp.preferred_duration_range[a.category]
  IN Opt(MapGet(lp.rating_bias_by_category, a.category) # 0,
         [desc |-> "rating preference (category)", bias |-> MapGet(lp.rating_bias_by_category, a.category)])
     \o Opt(MapGet(lp.rating_bias_by_duration, bucket) # 0,
         [desc |-> "rating preference (duration)", bias |-> MapGet(lp.rating_bias_by_duration, bucket)])
     \o Opt(MapGet(lp.rating_bias_by_hook_bucket, hook_b) # 0,
         [desc |-> "rating preference (hook)", bias |-> MapGet(lp.rating_bias_by_hook_bucket, hook_b)])
     \o Opt(a.is_punchline /\ lp.rating_bias_punchline # 0,
         [desc |-> "rating preference (punchline)", bias |-> lp.rating_bias_punchline])
     \o Opt(has_pref /\ a.clip_duration < preferred.min /\ "too_short" \in lp.common_failure_patterns,
         [desc |-> "menghindari klip terlalu pendek", bias |-> -2])
     \o Opt(has_pref /\ a.clip_duration > preferred.max /\ "too_long" \in lp.common_failure_patterns,
         [desc |-> "menghindari klip terlalu panjang", bias |-> -1])
     \o Opt(has_pref /\ preferred.min <= a.clip_duration /\ a.clip_duration <= preferred.max
              /\ "good_duration" \in lp.common_success_patterns,
         [desc |-> "sesuai durasi preferensi pengguna", bias |-> 1])
     \o Opt("weak_opening" \in lp.common_failure_patterns /\ ~hook_le(a.hook_position, 40),
         [desc |-> "menghindari opening lemah", bias |-> -1])
     \o Opt("strong_opening" \in lp.common_success_patterns /\ hook_le(a.hook_position, 25),
         [desc |-> "opening kuat", bias |-> 1])
     \o Opt(lp.common_failure_patterns \cap insight_failures # {} /\ ~a.insight_pass,
         [desc |-> "menghindari kurang insight", bias |-> -3])
     \o Opt(a.full_insight /\ lp.common_success_patterns \cap insight_successes # {},
         [desc |-> "insight jelas (feedback)", bias |-> 2])

bias_explanation(capped_bias, learning_in_play) ==
  IF learning_in_play
  THEN IF capped_bias > 0 THEN "Disesuaikan dari feedback pengguna"
       ELSE "Menghindari pola yang sering dinilai buruk"
  ELSE IF capped_bias > 0 THEN "Editorial preference match"
       ELSE "Historical pattern mismatch"

\* a = [base_score, category, clip_duration, is_punchline, hook_position,
\*      bias_profile, reasons, learning_profile, insight_pass, full_insight];
\* the result carries the returned score and the caller's reasons list after the call
apply_editorial_bias(a) ==
  LET applied_biases ==
        history_biases(a)
          \o (IF learning_active(a.learning_profile) THEN learning_biases(a) ELSE <<>>)
      total_bias == SumBias(applied_biases)
      capped_bias == _clamp(total_bias, -4, 4)
      headline == [desc |-> bias_explanation(capped_bias, learning_active(a.learning_profile)),
                   bias |-> capped_bias, breakdown |-> <<>>]
      breakdown == [desc |-> "Bias breakdown", bias |-> capped_bias, breakdown |-> applied_biases]
  IN IF bias_is_zero(a.bias_profile)
          /\ (~a.learning_profile.present \/ learning_is_zero(a.learning_profile))
     THEN [score |-> a.base_score, reasons |-> a.reasons]
     ELSE [score |-> a.base_score + capped_bias,
           reasons |-> a.reasons
                         \o Opt(capped_bias # 0, headline)
                         \o Opt(capped_bias # 0 /\ Len(applied_biases) > 1, breakdown)]

(***************************************************************************)
(* highlight_ai.py: numeric helpers of detect_highlights.                  *)
(***************************************************************************)
\* 0.70 * a + 0.30 * b is evaluated in binary floating point; on exact ties
\* ((7a + 3b) % 10 = 5) the float sum may fall on the other side of .5.  These
\* are the pairs (a, b), -10 <= a <= 40, -10 <= b <= 60, whose float result is
\* the other neighbour of the tie.
blend_float_ties ==
  {
    <<-9, 46>>, <<-8, 7>>, <<-8, 57>>, <<-7, -2>>, <<-7, 38>>, <<-6, 9>>, <<-3, 2>>, <<1, 36>>,
    <<3, -2>>, <<3, 18>>, <<6, -9>>, <<6, 11>>, <<6, 31>>, <<7, 2>>, <<8, -7>>, <<12, -3>>,
    <<12, 17>>, <<12, 57>>, <<14, -1>>, <<17, -8>>, <<17, 12>>, <<23, -2>>, <<23, 18>>, <<24, 9>>,
    <<24, 29>>, <<24, 49>>, <<28, -7>>, <<28, 13>>, <<29, 4>>, <<29, 24>>, <<33, 8>>, <<34, -1>>,
    <<34, 19>>, <<38, 3>>, <<39, -6>>, <<39, 14>> }

\* int(round(0.70 * anchor + 0.30 * window))
blend_standard(a, b) ==
  LET e == RoundHalfEven(7 * a + 3 * b, 10)
      lo == (7 * a + 3 * b) \div 10
  IN IF <<a, b>> \in blend_float_ties THEN (IF e = lo THEN lo + 1 ELSE lo) ELSE e

\* int(round(0.20 * anchor + 0.80 * window)); 2a + 8b is even, no ties
blend_educational(a, b) == RoundHalfEven(2 * a + 8 * b, 10)

\* _overlap_ratio(a, b) >= 0.60, by cross-multiplication; union is floored at
\* 1e-9 in the source, so an empty union gives ratio 0
overlap_inter(a_start, a_end, b_start, b_end) ==
  Max2(0, Min2(a_end, b_end) - Max2(a_start, b_start))
overlap_union(a_start, a_end, b_start, b_end) ==
  (a_end - a_start) + (b_end - b_start) - overlap_inter(a_start, a_end, b_start, b_end)
overlap_at_least_60(a_start, a_end, b_start, b_end) ==
  LET inter == overlap_inter(a_start, a_end, b_start, b_end)
      union == overlap_union(a_start, a_end, b_start, b_end)
  IN union > 0 /\ 10 * inter >= 6 * union

RECURSIVE InsertSorted(_, _)
InsertSorted(x, xs) ==
  IF xs = <<>> THEN <<x>>
  ELSE IF x <= Head(xs) THEN <<x>> \o xs
  ELSE <<Head(xs)>> \o InsertSorted(x, Tail(xs))

RECURSIVE SortAsc(_)
SortAsc(xs) ==
  IF xs = <<>> THEN <<>>
  ELSE CHOOSE out \in {InsertSorted(Head(xs), rest) : rest \in {SortAsc(Tail(xs))}} : TRUE

\* _quantile(values, q) for q = qn / 4, returned in quarters (4 * quantile)
_quantile4(values, qn) ==
  LET xs == SortAsc(values)
      pos4 == (Len(xs) - 1) * qn
      lo == pos4 \div 4
      hi == Min2(Len(xs) - 1, lo + 1)
      frac4 == pos4 % 4
  IN IF Len(values) = 0 THEN 0
     ELSE IF Len(xs) = 1 THEN 4 * xs[1]
     ELSE xs[lo + 1] * (4 - frac4) + xs[hi + 1] * frac4

_adaptive_peak_threshold(seg_scores) ==
  LET p75 == _quantile4(seg_scores, 3)
      p50 == _quantile4(seg_scores, 2)
      thr == RoundHalfEven(Max2(8, Min2(24, p75)), 4)
  IN IF Len(seg_scores) = 0 THEN 2
     ELSE IF (p75 - p50) < 4 THEN Max2(2, thr - 1)
     ELSE thr

\* lexicographic order on integer tuples of equal length
RECURSIVE TupleLess(_, _)
TupleLess(a, b) ==
  IF a = <<>> THEN FALSE
  ELSE IF Head(a) < Head(b) THEN TRUE
  ELSE IF Head(a) > Head(b) THEN FALSE
  ELSE TupleLess(Tail(a), Tail(b))

\* sorted(xs, key=..., reverse=True): stable, descending; key is a function
\* from the elements of xs to integer tuples
RECURSIVE InsertDesc(_, _, _)
InsertDesc(x, xs, key) ==
  IF xs = <<>> THEN <<x>>
  ELSE IF TupleLess(key[Head(xs)], key[x]) THEN <<x>> \o xs
  ELSE <<Head(xs)>> \o InsertDesc(x, Tail(xs), key)

RECURSIVE SortedDesc(_, _)
SortedDesc(xs, key) ==
  IF xs = <<>> THEN <<>>
  ELSE CHOOSE out \in {InsertDesc(xs[Len(xs)], rest, key) :
                         rest \in {SortedDesc(SubSeq(xs, 1, Len(xs) - 1), key)}} : TRUE

InSeq(x, xs) == \E i \in 1..Len(xs) : xs[i] = x

_hook_position_score(anchor_index, window_left, window_right, opening_strictness) ==
  LET window_span == window_right - window_left + 1
      anchor_position == anchor_index - window_left
      strict == opening_strictness >= 1
      ideal_thr == IF strict THEN 20 ELSE 25
      good_thr == IF strict THEN 35 ELSE 40
      late_thr == IF strict THEN 55 ELSE 60
  IN IF window_right <= window_left THEN 0
     ELSE IF 100 * anchor_position <= ideal_thr * window_span THEN (IF strict THEN 4 ELSE 3)
     ELSE IF 100 * anchor_position <= good_thr * window_span THEN 1
     ELSE IF 100 * anchor_position <= late_thr * window_span THEN 0
     ELSE (IF strict THEN -3 ELSE -2)

\* tokens that contain "jadi", "artinya", "berarti", "hasilnya" or "itulah"
sequence_reasoning_tokens == {"artinya", "berarti", "hasilnya", "itulah"} \cup ContainsJadi

RECURSIVE edu_sequence_end(_, _, _)
\* first index after the sequence that starts at i (j is the next one to test)
edu_sequence_end(T, i, j) ==
  LET next_text == T[j].text
      is_edu == _is_educational_content(next_text)
      has_reasoning == HasAny(next_text, sequence_reasoning_tokens)
      is_short_connector == Len(_tokenize(next_text)) < 5
  IN IF j <= Len(T) /\ j < i + 8 /\ (is_edu \/ has_reasoning \/ is_short_connector)
     THEN edu_sequence_end(T, i, j + 1)
     ELSE j

RECURSIVE edu_sequences_from(_, _, _)
edu_sequences_from(T, i, min_length) ==
  LET j == edu_sequence_end(T, i, i + 1)
  IN IF i > Len(T) THEN <<>>
     ELSE IF _is_educational_content(T[i].text)
               /\ j - i >= min_length
               /\ _check_informational_completeness(window_segment_texts(T, i, j - 1))
          THEN <<i>> \o edu_sequences_from(T, j, min_length)
          ELSE edu_sequences_from(T, i + 1, min_length)

_detect_educational_sequences(T, min_length) ==
  IF Len(T) < min_length THEN <<>> ELSE edu_sequences_from(T, 1, min_length)

(***************************************************************************)
(* _dynamic_window_profile: the per-category table and the bounded         *)
(* learning adjustments (deltas in tenths of a second).                    *)
(***************************************************************************)
Categories == {"educational", "hard_advice", "warning", "lesson_learned", "motivational", "insight"}

profile_key(anchor_text) == IF _is_punchline(anchor_text) THEN "punchline" ELSE _classify(anchor_text)

base_profile(key) ==
  CASE key = "punchline" ->
         [min_duration |-> 80, max_duration |-> 180, pre_roll |-> 5, post_roll |-> 10,
          max_pre_context |-> 40, max_post_context |-> 60]
    [] key = "educational" ->
         [min_duration |-> 180, max_duration |-> 350, pre_roll |-> 8, post_roll |-> 10,
          max_pre_context |-> 120, max_post_context |-> 200]
    [] key = "hard_advice" ->
         [min_duration |-> 120, max_duration |-> 250, pre_roll |-> 5, post_roll |-> 10,
          max_pre_context |-> 50, max_post_context |-> 100]
    [] key = "warning" ->
         [min_duration |-> 150, max_duration |-> 300, pre_roll |-> 5, post_roll |-> 10,
          max_pre_context |-> 80, max_post_context |-> 150]
    [] key = "lesson_learned" ->
         [min_duration |-> 150, max_duration |-> 350, pre_roll |-> 8, post_roll |-> 10,
          max_pre_context |-> 100, max_post_context |-> 180]
    [] key = "motivational" ->
         [min_duration |-> 120, max_duration |-> 250, pre_roll |-> 5, post_roll |-> 10,
          max_pre_context |-> 50, max_post_context |-> 120]
    [] OTHER ->
         [min_duration |-> 120, max_duration |-> 300, pre_roll |-> 5, post_roll |-> 10,
          max_pre_context |-> 80, max_post_context |-> 150]

\* lower bounds of max_pre_context / max_post_context under learning
pre_context_floor(key) ==
  CASE key \in {"punchline", "hard_advice", "motivational"} -> 10
    [] key \in {"educational", "lesson_learned"} -> 30
    [] OTHER -> 20

post_context_floor(key) ==
  CASE key = "punchline" -> 30
    [] key \in {"hard_advice", "motivational"} -> 60
    [] key = "lesson_learned" -> 100
    [] OTHER -> 80

\* the minimum raised without the cap at the maximum; the returned profile is
\* tested against this variant
_dynamic_window_profile_uncapped(anchor_text, lp) ==
  LET key == profile_key(anchor_text)
      prof == base_profile(key)
      dmin == MapGet(lp.min_duration_delta_by_category, key)
      dmax == MapGet(lp.max_duration_delta_by_category, key)
      dpre == MapGet(lp.max_pre_context_delta_by_category, key)
      dpost == MapGet(lp.max_post_context_delta_by_category, key)
      min_duration == IF dmin > 0 THEN prof.min_duration + dmin ELSE prof.min_duration
      max_duration == IF dmax < 0 THEN Max2(min_duration, prof.max_duration + dmax)
                      ELSE prof.max_duration
      max_pre_context == IF dpre # 0 THEN Max2(pre_context_floor(key), prof.max_pre_context + dpre)
                         ELSE prof.max_pre_context
      max_post_context == IF dpost # 0 THEN Max2(post_context_floor(key), prof.max_post_context + dpost)
                          ELSE prof.max_post_context
  IN IF learning_active(lp)
     THEN [min_duration |-> min_duration, max_duration |-> max_duration,
           pre_roll |-> prof.pre_roll, post_roll |-> prof.post_roll,
           max_pre_context |-> max_pre_context, max_post_context |-> max_post_context]
     ELSE prof

_dynamic_window_profile(anchor_text, lp) ==
  LET key == profile_key(anchor_text)
      prof == base_profile(key)
      dmin == MapGet(lp.min_duration_delta_by_category, key)
      dmax == MapGet(lp.max_duration_delta_by_category, key)
      dpre == MapGet(lp.max_pre_context_delta_by_category, key)
      dpost == MapGet(lp.max_post_context_delta_by_category, key)
      min_duration == IF dmin > 0 THEN Min2(prof.max_duration, prof.min_duration + dmin)
                      ELSE prof.min_duration
      max_duration == IF dmax < 0 THEN Max2(min_duration, prof.max_duration + dmax)
                      ELSE prof.max_duration
      max_pre_context == IF dpre # 0 THEN Max2(pre_context_floor(key), prof.max_pre_context + dpre)
                         ELSE prof.max_pre_context
      max_post_context == IF dpost # 0 THEN Max2(post_context_floor(key), prof.max_post_context + dpost)
                          ELSE prof.max_post_context
  IN IF learning_active(lp)
     THEN [min_duration |-> min_duration, max_duration |-> max_duration,
           pre_roll |-> prof.pre_roll, post_roll |-> prof.post_roll,
           max_pre_context |-> max_pre_context, max_post_context |-> max_post_context]
     ELSE prof

(***************************************************************************)
(* detect_highlights, steps 1-2: preprocessing, per-segment scoring and    *)
(* anchor ranking.                                                         *)
(***************************************************************************)
\* a limit the primary loop never reaches on the transcripts of the model; the
\* candidate count is tested against this variant
max_results_doubled == 5 + 5

max_results == 5
min_results_of(T) == IF Len(T) >= 20 THEN 2 ELSE 1

clean_transcript(T) == [i \in 1..Len(T) |-> [T[i] EXCEPT !.text = _clean_transcript_text(@)]]

seg_scores_of(T) == [i \in 1..Len(T) |-> _score_text(T[i].text)]
seg_punch_of(T) == [i \in 1..Len(T) |-> _is_punchline(T[i].text)]
seg_core_passes_of(T) == [i \in 1..Len(T) |-> _calculate_core_editorial_pass(T[i].text).passes]

NegInf == -1000000000

is_local_peak(A, i, peak_threshold) ==
  LET n == Len(A.seg_scores)
      sc == A.seg_scores[i]
      left == IF i > 1 THEN A.seg_scores[i - 1] ELSE NegInf
      right == IF i < n THEN A.seg_scores[i + 1] ELSE NegInf
  IN /\ ~(sc < peak_threshold /\ ~A.seg_punch[i] /\ ~A.seg_core_passes[i])
     /\ sc >= left /\ sc >= right /\ (sc > left \/ sc > right)

\* range(n) filtered by a membership set, in index order
RECURSIVE IndicesIn(_, _, _)
IndicesIn(i, n, S) ==
  IF i > n THEN <<>>
  ELSE (IF i \in S THEN <<i>> ELSE <<>>) \o IndicesIn(i + 1, n, S)

RECURSIVE AppendMissing(_, _)
AppendMissing(xs, ys) ==
  IF ys = <<>> THEN xs
  ELSE CHOOSE out \in
         {AppendMissing(grown, Tail(ys)) :
            grown \in {IF InSeq(Head(ys), xs) THEN xs ELSE Append(xs, Head(ys))}} : TRUE

peaks_of(A) ==
  LET n == Len(A.seg_scores)
      thr == _adaptive_peak_threshold(A.seg_scores)
      local == IndicesIn(1, n, {i \in 1..n : is_local_peak(A, i, thr)})
      strong == IndicesIn(1, n, {i \in 1..n : A.seg_punch[i] \/ A.seg_core_passes[i]})
      found == AppendMissing(AppendMissing(local, strong), A.educational_anchors)
      by_score == [i \in 1..n |-> <<A.seg_scores[i]>>]
      top == SortedDesc(IndicesIn(1, n, 1..n), by_score)
  IN IF found # <<>> THEN found
     ELSE SubSeq(top, 1, Min2(Len(top), Max2(6, A.min_results * 2)))

peak_rank(A) ==
  [i \in 1..Len(A.seg_scores) |->
     <<B2I(A.seg_punch[i]), B2I(A.seg_core_passes[i]), A.seg_scores[i]>>]

ranked_indices_of(A) ==
  CHOOSE ranked \in {SortedDesc(peaks, peak_rank(A)) : peaks \in {peaks_of(A)}} : TRUE

fallback_order_of(A) ==
  SortedDesc(IndicesIn(1, Len(A.seg_scores), 1..Len(A.seg_scores)),
             [i \in 1..Len(A.seg_scores) |-> <<B2I(A.seg_core_passes[i]), A.seg_scores[i]>>])

\* everything steps 1-2 derive from the cleaned transcript T
analysis_of(T) ==
  [seg_scores |-> seg_scores_of(T),
   seg_punch |-> seg_punch_of(T),
   seg_core_passes |-> seg_core_passes_of(T),
   educational_anchors |-> _detect_educational_sequences(T, 3),
   min_results |-> min_results_of(T)]

(***************************************************************************)
(* detect_highlights, steps 3-4: the clip window of an anchor and the      *)
(* quality gates.  A window W is [idx, l, r, start, end, over].            *)
(***************************************************************************)
max_clip_len == 600

\* The program keeps times as binary64 floats; the model keeps them in tenths
\* of a second, exact.  The cap computes end = start + 60.0, start being
\* max(0.0, seg_start(l) - pre_roll): that sum is rounded, and for the runs below
\* the rounded end is so far above start that end - start evaluates to more
\* than 60.0.  A run <<pre_roll, first, last>> stands for the segment starts
\* first, first + 10, ..., last (tenths, each the float nearest to its decimal);
\* tabulated from the float operations for segment starts below 300 s.
float_cap_runs ==
  {<<5, 54, 634>>, <<5, 49, 639>>, <<5, 693, 1273>>, <<5, 688, 1278>>,
   <<5, 1971, 2551>>, <<5, 1966, 2556>>,
   <<8, 52, 312>>, <<8, 57, 317>>, <<8, 331, 631>>, <<8, 336, 636>>,
   <<8, 691, 1281>>, <<8, 696, 1286>>, <<8, 694, 1284>>, <<8, 689, 1279>>,
   <<8, 1974, 2554>>, <<8, 1969, 2559>>}

cap_sum_rounds_up(first_seg_start, pre_roll) ==
  \E run \in float_cap_runs :
    /\ run[1] = pre_roll
    /\ first_seg_start \in run[2]..run[3]
    /\ (first_seg_start - run[2]) % 10 = 0

\* "Enforce hard max clip length of 60s" on the window returned for spec P;
\* over records that end - start of the capped window evaluates above 60.0
cap_window(T, P, W) ==
  IF W.end - W.start > max_clip_len
  THEN [W EXCEPT !.end = W.start + max_clip_len,
                 !.over = cap_sum_rounds_up(seg_start(T, W.l), P.pre_roll)]
  ELSE W

\* the window of anchor idx under window spec prof, capped at 60 s
clip_window_of(T, idx, prof) ==
  cap_window(T, prof,
             [idx |-> idx,
              l |-> _build_window_around(T, idx, prof).l,
              r |-> _build_window_around(T, idx, prof).r,
              start |-> _build_window_around(T, idx, prof).start,
              end |-> _build_window_around(T, idx, prof).end,
              over |-> FALSE])

clip_window(T, idx, lp) == clip_window_of(T, idx, _dynamic_window_profile(T[idx].text, lp))

\* a dedup test that never fires; non-overlap is tested against this variant
is_duplicate_never(W, candidates) == FALSE

is_duplicate(W, candidates) ==
  \E k \in 1..Len(candidates) :
    overlap_at_least_60(W.start, W.end, candidates[k].start, candidates[k].end)

hard_min_of(is_punch, cat) ==
  IF is_punch THEN 80
  ELSE IF cat = "educational" THEN 180
  ELSE IF cat \in {"warning", "lesson_learned"} THEN 150
  ELSE 120

num_segments_of(W) == W.r - W.l + 1
clip_duration_of(W) == W.end - W.start
window_text(T, W) == window_text_of(T, W.l, W.r)

\* GATE 1: hard minimum duration
gate1(T, W) ==
  LET anchor_text == T[W.idx].text
  IN /\ clip_duration_of(W) >= hard_min_of(_is_punchline(anchor_text), _classify(anchor_text))
     /\ ~(num_segments_of(W) < 2 /\ clip_duration_of(W) < 100)

\* GATE 2: core editorial check of the window text
gate2(T, W) == _calculate_core_editorial_pass(window_text(T, W)).passes

is_meaningful_segment(seg_text) ==
  /\ Len(_tokenize(seg_text)) >= 3
  /\ (_calculate_core_editorial_pass(seg_text).passes \/ Len(_tokenize(seg_text)) >= 5)

meaningful_segments(T, W) == Cardinality({i \in W.l..W.r : is_meaningful_segment(T[i].text)})

\* GATE 3: claim + support
gate3(T, W) ==
  \/ meaningful_segments(T, W) >= 2
  \/ (_is_educational_content(window_text(T, W)) /\ num_segments_of(W) >= 3)

is_complete_window(T, W) == _check_informational_completeness(window_segment_texts(T, W.l, W.r))

\* the completeness rule of GATE 4 (and of final check 3)
completeness_ok(T, W) ==
  LET is_edu_window == _is_educational_content(window_text(T, W))
      window_core_score == _calculate_core_editorial_pass(window_text(T, W)).core_score
  IN is_complete_window(T, W) \/ (~is_edu_window /\ window_core_score >= 8)

\* GATE 4: informational completeness, with the educational segment-count checks
gate4(T, W) ==
  LET is_edu_window == _is_educational_content(window_text(T, W))
  IN /\ completeness_ok(T, W)
     /\ ~(is_edu_window /\ num_segments_of(W) < 3)
     /\ ~(is_edu_window /\ clip_duration_of(W) < 200 /\ ~is_complete_window(T, W))

\* GATE 5: insight completion layer, for a given punchline-clip flag
\* the insight gate with its hard rule alone
insight_gate_hard_rule_only(T, W, lp, is_punchline_clip) ==
  LET ic == _insight_components(window_text(T, W))
  IN ~(is_punchline_clip /\ ic.claim /\ ~(ic.reason \/ ic.implication))

insight_gate(T, W, lp, is_punchline_clip) ==
  LET ic == _insight_components(window_text(T, W))
      is_edu_window == _is_educational_content(window_text(T, W))
      insight_required == (~is_edu_window) \/ (lp.present /\ lp.require_insight_all)
  IN /\ ~(is_punchline_clip /\ ic.claim /\ ~(ic.reason \/ ic.implication))
     /\ (insight_required => _has_insight_structure(window_text(T, W)))

gate5(T, A, W, lp) ==
  insight_gate(T, W, lp, A.seg_punch[W.idx] \/ _is_punchline(window_text(T, W)))

(***************************************************************************)
(* detect_highlights, steps 5-6: bonuses, editorial bias, final validation *)
(***************************************************************************)
duration_bonus_of(T, A, W) ==
  LET d == clip_duration_of(W)
      cat == _classify(T[W.idx].text)
      is_complete == is_complete_window(T, W)
  IN IF A.seg_punch[W.idx] \/ _is_punchline(window_text(T, W))
     THEN (IF 80 <= d /\ d <= 180 THEN 2 ELSE IF d < 80 \/ d > 250 THEN -2 ELSE 0)
     ELSE IF cat = "educational"
     THEN (IF 200 <= d /\ d <= 350 THEN 4
           ELSE IF 180 <= d /\ d < 200 THEN 2
           ELSE IF d < 180 THEN -4 ELSE 0)
          + (IF d > 600 THEN -3 ELSE 0)
          + (IF is_complete /\ 200 <= d /\ d <= 350 THEN 2 ELSE 0)
     ELSE IF cat = "hard_advice"
     THEN (IF 120 <= d /\ d <= 250 THEN 2 ELSE IF d < 100 \/ d > 300 THEN -1 ELSE 0)
     ELSE IF cat = "lesson_learned"
     THEN (IF 180 <= d /\ d <= 350 THEN 2 ELSE IF d < 150 THEN -1 ELSE 0)
     ELSE (IF 150 <= d /\ d <= 300 THEN 2 ELSE IF d < 120 \/ d > 400 THEN -1 ELSE 0)

has_full_insight(T, W) ==
  LET ic == _insight_components(window_text(T, W))
  IN ic.claim /\ ic.reason /\ ic.implication

\* the score before the editorial bias (blend + step-5 bonuses)
base_score_of(T, A, W, lp) ==
  LET wt == window_text(T, W)
      window_score == _score_text(wt)
      anchor_score == A.seg_scores[W.idx]
      is_edu == _classify(T[W.idx].text) = "educational"
      is_complete == is_complete_window(T, W)
      window_words == _tokenize(wt)
  IN (IF _is_educational_content(wt)
      THEN blend_educational(anchor_score, window_score)
      ELSE blend_standard(anchor_score, window_score))
     + (IF A.seg_punch[W.idx] \/ _is_punchline(wt) THEN 3 ELSE 0)
     + _hook_position_score(W.idx, W.l, W.r, IF lp.present THEN lp.opening_strictness ELSE 0)
     + duration_bonus_of(T, A, W)
     + (IF is_complete THEN 2 + B2I(is_edu) ELSE 0)
     + B2I(HasAny(window_words, claim_words) /\ HasAny(window_words, support_words))
     + (IF has_full_insight(T, W) THEN 2 ELSE 0)

hook_position_of(T, W) ==
  IF clip_duration_of(W) > 0
  THEN [num |-> T[W.idx].start - W.start, den |-> clip_duration_of(W)]
  ELSE [num |-> 1, den |-> 2]

bias_call_of(T, A, W, lp, bias) ==
  [base_score |-> base_score_of(T, A, W, lp),
   category |-> _classify(T[W.idx].text),
   clip_duration |-> clip_duration_of(W),
   is_punchline |-> A.seg_punch[W.idx] \/ _is_punchline(window_text(T, W)),
   hook_position |-> hook_position_of(T, W),
   bias_profile |-> bias,
   reasons |-> <<>>,
   learning_profile |-> lp,
   insight_pass |-> _has_insight_structure(window_text(T, W)),
   full_insight |-> has_full_insight(T, W)]

final_score_of(T, A, W, lp, bias) == apply_editorial_bias(bias_call_of(T, A, W, lp, bias)).score

\* tokens that end with "jadi", "artinya", "berarti", "makanya", "pertanyaannya"
hanging_endings == {"jadi", "artinya", "berarti", "makanya", "pertanyaannya"}

ends_hanging(T, W) ==
  LET final_segment_text == T[W.r].text
  IN \/ (Len(final_segment_text) > 0 /\ final_segment_text[Len(final_segment_text)] \in hanging_endings)
     \/ HasAny(final_segment_text, {"?"})

min_score_of(is_punchline_clip, is_edu) ==
  IF is_punchline_clip THEN 4 ELSE IF is_edu THEN 5 ELSE 6

\* STEP 6, checks 2-6 (everything except the score threshold)
final_structure_ok(T, A, W) ==
  LET anchor_text == T[W.idx].text
      is_edu == _classify(anchor_text) = "educational"
      is_punch == _is_punchline(anchor_text)
      d == clip_duration_of(W)
      window_core_score == _calculate_core_editorial_pass(window_text(T, W)).core_score
  IN /\ ~(is_edu /\ d < 180)
     /\ ~(~is_punch /\ d < 120)
     /\ ~(~is_complete_window(T, W) /\ (is_edu \/ window_core_score < 8))
     /\ ~ends_hanging(T, W)
     /\ ~(is_edu /\ num_segments_of(W) < 3)
     /\ gate3(T, W)

\* a gate that lets every anchor through; the empty output on transcripts
\* without editorial value is tested against this variant
anchor_gate_open(A, idx) == TRUE

\* anchor gate of the primary loop
anchor_gate(A, idx) ==
  A.seg_core_passes[idx] \/ A.seg_punch[idx] \/ InSeq(idx, A.educational_anchors)

\* the first `continue` of the primary loop body between the dedup test and
\* GATE 5, or "pass"
gates_verdict(T, A, W, lp, candidates) ==
  IF is_duplicate(W, candidates) THEN "duplicate"
  ELSE IF ~gate1(T, W) THEN "gate1"
  ELSE IF ~gate2(T, W) THEN "gate2"
  ELSE IF ~gate3(T, W) THEN "gate3"
  ELSE IF ~gate4(T, W) THEN "gate4"
  ELSE IF ~gate5(T, A, W, lp) THEN "gate5"
  ELSE "pass"

\* STEP 6 for a given final score
final_verdict(T, A, W, final_score) ==
  LET is_punchline_clip == A.seg_punch[W.idx] \/ _is_punchline(window_text(T, W))
      is_edu == _classify(T[W.idx].text) = "educational"
  IN IF final_score < min_score_of(is_punchline_clip, is_edu) THEN "score"
     ELSE IF ~final_structure_ok(T, A, W) THEN "final"
     ELSE "accept"

\* the first `continue` the primary loop body takes for window W, or "accept"
primary_verdict(T, A, W, lp, bias, candidates) ==
  IF ~anchor_gate(A, W.idx) THEN "anchor"
  ELSE IF gates_verdict(T, A, W, lp, candidates) # "pass"
  THEN gates_verdict(T, A, W, lp, candidates)
  ELSE final_verdict(T, A, W, final_score_of(T, A, W, lp, bias))

candidate_of(T, W, final_score) ==
  [start |-> W.start, end |-> W.end,
   score |-> final_score,
   category |-> _classify(T[W.idx].text),
   idx |-> W.idx, l |-> W.l, r |-> W.r, over |-> W.over, from |-> "primary"]

primary_candidate(T, A, W, lp, bias) == candidate_of(T, W, final_score_of(T, A, W, lp, bias))

(***************************************************************************)
(* detect_highlights, step 8: backfill                                     *)
(***************************************************************************)
backfill_verdict(T, A, W, lp, candidates) ==
  IF ~A.seg_core_passes[W.idx] THEN "core"
  ELSE IF A.seg_scores[W.idx] < 3 THEN "score"
  ELSE IF is_duplicate(W, candidates) THEN "duplicate"
  ELSE IF ~gate2(T, W) THEN "gate2"
  ELSE IF ~insight_gate(T, W, lp, _is_punchline(window_text(T, W))) THEN "gate5"
  ELSE "accept"

backfill_candidate(T, A, W, lp) ==
  [start |-> W.start, end |-> W.end,
   score |-> blend_standard(A.seg_scores[W.idx], _score_text(window_text(T, W)))
               + (IF has_full_insight(T, W) THEN 2 ELSE 0),
   category |-> _classify(window_text(T, W)),
   idx |-> W.idx, l |-> W.l, r |-> W.r, over |-> W.over, from |-> "backfill"]

(***************************************************************************)
(* detect_highlights, step 9: sort, quality cutoff, truncation             *)
(***************************************************************************)
\* a sort key that prefers longer clips among equal scores; the output order is
\* tested against this variant
sort_key_longer_first(candidates) ==
  [k \in 1..Len(candidates) |->
     <<candidates[k].score, candidates[k].end - candidates[k].start, B2I(candidates[k].over)>>]

\* (score, -(end - start)); of two capped clips the one whose end was rounded up
\* is the longer
sort_key(candidates) ==
  [k \in 1..Len(candidates) |->
     <<candidates[k].score, -(candidates[k].end - candidates[k].start), -B2I(candidates[k].over)>>]

sorted_candidates(candidates) ==
  LET order == SortedDesc([k \in 1..Len(candidates) |-> k], sort_key(candidates))
  IN [k \in 1..Len(candidates) |-> candidates[order[k]]]

\* a sort that orders by the key and leaves the order of equal keys open
unstable_sort(candidates) ==
  LET idx == 1..Len(candidates)
      key == sort_key(candidates)
      orders == {o \in [idx -> idx] :
                   /\ \A i, j \in idx : i # j => o[i] # o[j]
                   /\ \A i \in idx : i < Len(candidates) => ~TupleLess(key[o[i]], key[o[i + 1]])}
  IN {[k \in idx |-> candidates[o[k]]] : o \in orders}

\* the outcomes of candidates.sort(key=..., reverse=True): list.sort is stable,
\* so there is one
list_sort(candidates) == {sorted_candidates(candidates)}

\* a cutoff that is relative to the best score only
cutoff_select_relative(sorted, min_results) ==
  LET best_score == sorted[1].score
      cutoff == best_score - 3
      filtered == SelectSeq(sorted, LAMBDA c : c.score >= cutoff)
      kept == IF Len(filtered) >= min_results THEN filtered
              ELSE IF Len(sorted) >= min_results THEN SubSeq(sorted, 1, min_results)
              ELSE sorted
  IN IF sorted = <<>> THEN <<>>
     ELSE SubSeq(kept, 1, Min2(Len(kept), max_results))

\* a cutoff without the fallback to the first min_results clips
cutoff_select_strict(sorted, min_results) ==
  LET best_score == sorted[1].score
      cutoff == Max2(6, best_score - 3)
      filtered == SelectSeq(sorted, LAMBDA c : c.score >= cutoff)
  IN IF sorted = <<>> THEN <<>>
     ELSE SubSeq(filtered, 1, Min2(Len(filtered), max_results))

\* the dynamic quality cutoff and the return, on the sorted list
cutoff_select(sorted, min_results) ==
  LET best_score == sorted[1].score
      cutoff == Max2(6, best_score - 3)
      filtered == SelectSeq(sorted, LAMBDA c : c.score >= cutoff)
      kept == IF Len(filtered) >= min_results THEN filtered
              ELSE IF Len(sorted) >= min_results THEN SubSeq(sorted, 1, min_results)
              ELSE sorted
  IN IF sorted = <<>> THEN <<>>
     ELSE SubSeq(kept, 1, Min2(Len(kept), max_results))

final_select(candidates, min_results) ==
  cutoff_select(sorted_candidates(candidates), min_results)

(***************************************************************************)
(* The loops of detect_highlights as iterated steps; the actions below     *)
(* take the same steps one at a time.                                      *)
(***************************************************************************)
primary_step(T, A, idx, lp, bias, candidates) ==
  LET W == clip_window(T, idx, lp)
  IN IF primary_verdict(T, A, W, lp, bias, candidates) = "accept"
     THEN Append(candidates, primary_candidate(T, A, W, lp, bias))
     ELSE candidates

backfill_step(T, A, idx, lp, candidates) ==
  LET W == clip_window(T, idx, lp)
  IN IF backfill_verdict(T, A, W, lp, candidates) = "accept"
     THEN Append(candidates, backfill_candidate(T, A, W, lp))
     ELSE candidates

RECURSIVE primary_loop(_, _, _, _, _, _)
primary_loop(T, A, queue, lp, bias, candidates) ==
  IF queue = <<>> \/ Len(candidates) >= max_results THEN candidates
  ELSE primary_loop(T, A, Tail(queue), lp, bias,
                    primary_step(T, A, Head(queue), lp, bias, candidates))

RECURSIVE backfill_loop(_, _, _, _, _)
backfill_loop(T, A, queue, lp, candidates) ==
  IF queue = <<>> \/ Len(candidates) >= A.min_results THEN candidates
  ELSE backfill_loop(T, A, Tail(queue), lp, backfill_step(T, A, Head(queue), lp, candidates))

detect_highlights(raw, lp, bias) ==
  LET T == clean_transcript(raw)
      A == analysis_of(T)
      primary == primary_loop(T, A, ranked_indices_of(A), lp, bias, <<>>)
      all == IF Len(primary) < A.min_results
             THEN backfill_loop(T, A, fallback_order_of(A), lp, primary)
             ELSE primary
  IN IF raw = <<>> THEN <<>> ELSE final_select(all, A.min_results)

(***************************************************************************)
(* Bounded input domains.                                                  *)
(***************************************************************************)
DurationBuckets == {"<12s", "12-18s", "18-30s", ">30s"}

ZeroBias ==
  [category_bias |-> EmptyMap, duration_bias |-> EmptyMap,
   punchline_bias |-> 0, early_hook_bias |-> 0, feedback_count |-> 0]

\* history that rejected everything: every category and bucket at -3
HarshBias ==
  [category_bias |-> [c \in Categories |-> -3], duration_bias |-> [b \in DurationBuckets |-> -3],
   punchline_bias |-> -3, early_hook_bias |-> -3, feedback_count |-> 10]

\* history that accepted everything
KeenBias ==
  [category_bias |-> [c \in Categories |-> 3], duration_bias |-> [b \in DurationBuckets |-> 3],
   punchline_bias |-> 3, early_hook_bias |-> 3, feedback_count |-> 10]

\* feedback rows exist but every statistic is neutral
CountOnlyBias ==
  [category_bias |-> [c \in {"insight"} |-> 0], duration_bias |-> EmptyMap,
   punchline_bias |-> 0, early_hook_bias |-> 0, feedback_count |-> 4]

\* the profile of _test_apply_bias
TestBias ==
  [category_bias |-> [c \in {"educational", "punchline"} |-> IF c = "educational" THEN 2 ELSE 3],
   duration_bias |-> [b \in {"18-30s"} |-> 1],
   punchline_bias |-> 3, early_hook_bias |-> 1, feedback_count |-> 50]

MildBias ==
  [category_bias |-> [c \in {"insight", "hard_advice"} |-> 1], duration_bias |-> [b \in {"12-18s"} |-> -2],
   punchline_bias |-> 2, early_hook_bias |-> 0, feedback_count |-> 0]

\* learning_profile = None
NoLearning ==
  [present |-> FALSE, feedback_count |-> 0,
   preferred_duration_range |-> EmptyMap,
   common_failure_patterns |-> {}, common_success_patterns |-> {},
   rating_bias_by_category |-> EmptyMap, rating_bias_by_duration |-> EmptyMap,
   rating_bias_by_hook_bucket |-> EmptyMap, rating_bias_punchline |-> 0,
   min_duration_delta_by_category |-> EmptyMap, max_duration_delta_by_category |-> EmptyMap,
   max_pre_context_delta_by_category |-> EmptyMap, max_post_context_delta_by_category |-> EmptyMap,
   require_insight_all |-> FALSE, opening_strictness |-> 0]

\* a profile object with feedback_count = 0 whose other fields are populated
DormantLearning ==
  [NoLearning EXCEPT !.present = TRUE,
     !.rating_bias_by_category = [c \in Categories |-> 2],
     !.rating_bias_punchline = 3,
     !.common_failure_patterns = {"weak_opening", "no_insight"},
     !.common_success_patterns = {"strong_opening"},
     !.min_duration_delta_by_category = [c \in {"hard_advice"} |-> 20]]

StrictLearning ==
  [NoLearning EXCEPT !.present = TRUE, !.feedback_count = 8,
     !.preferred_duration_range =
        [c \in {"insight", "hard_advice"} |-> [min |-> 150, max |-> 250]],
     !.common_failure_patterns = {"too_short", "too_long", "weak_opening", "no_insight"},
     !.common_success_patterns = {"good_duration"},
     !.rating_bias_by_category = [c \in {"hard_advice"} |-> -2],
     !.rating_bias_by_duration = [b \in {"<12s"} |-> -3],
     !.rating_bias_by_hook_bucket = [h \in {"late"} |-> -2],
     !.rating_bias_punchline = -1,
     !.min_duration_delta_by_category = [c \in {"hard_advice", "punchline"} |-> 20],
     !.max_duration_delta_by_category = [c \in {"insight"} |-> -50],
     !.max_pre_context_delta_by_category = [c \in {"insight", "hard_advice"} |-> -20],
     !.max_post_context_delta_by_category = [c \in {"hard_advice"} |-> 30],
     !.require_insight_all = TRUE, !.opening_strictness = 1]

KindLearning ==
  [NoLearning EXCEPT !.present = TRUE, !.feedback_count = 3,
     !.preferred_duration_range = [c \in {"educational"} |-> [min |-> 200, max |-> 350]],
     !.common_success_patterns = {"good_duration", "strong_opening", "clear_insight"},
     !.rating_bias_by_category = [c \in Categories |-> 2],
     !.rating_bias_by_hook_bucket = [h \in {"early", "mid"} |-> 1],
     !.rating_bias_punchline = 3]

\* Transcripts: up to MaxSegs catalogue segments; those of at most
\* MaxPaddedSegs segments are also taken with a run of PadLen filler segments
\* ("eee jadi gitu ya") before or after them, which makes len(transcript) >= 20
\* and hence min_results = 2
MaxSegs == 3
MaxPaddedSegs == 2
MaxShiftedSegs == 2
PadLen == 19
Pads == {"none", "front", "back"}

RECURSIVE SeqsUpTo(_, _)
SeqsUpTo(S, n) ==
  IF n = 0 THEN {<<>>}
  ELSE LET shorter == SeqsUpTo(S, n - 1)
       IN shorter \cup {Append(q, x) : q \in {t \in shorter : Len(t) = n - 1}, x \in S}

PadIds(ids, pad) ==
  LET filler_run == [k \in 1..PadLen |-> 3]
  IN IF pad = "front" THEN filler_run \o ids
     ELSE IF pad = "back" THEN ids \o filler_run
     ELSE ids

TranscriptIds == SeqsUpTo(1..Len(Catalog), MaxSegs)

\* long transcripts: a block of catalogue segments said Repeats times over, which
\* gives the primary loop more acceptable windows than max_results
Repeats == 6
LongBlocks == {<<9, 9>>, <<1, 7>>}

RECURSIVE RepeatIds(_, _)
RepeatIds(blk, reps) == IF reps = 0 THEN <<>> ELSE blk \o RepeatIds(blk, reps - 1)

\* two punchlines said in 2 s each
ShortTranscript ==
  << [start |-> 0, duration |-> 20, text |-> Catalog[1].text],
     [start |-> 20, duration |-> 20, text |-> Catalog[7].text] >>

\* transcripts that start at 0, bare or padded, short transcripts whose first
\* segment starts at 5.4 s (segment boundaries that are no binary fractions),
\* and the long repeated transcripts
Transcripts ==
  {MkTranscript(ids) : ids \in TranscriptIds}
    \cup {MkTranscript(PadIds(ids, pad)) :
            ids \in {t \in TranscriptIds : Len(t) <= MaxPaddedSegs}, pad \in {"front", "back"}}
    \cup {MkTranscriptAt(ids, 54) : ids \in {t \in TranscriptIds : Len(t) \in 1..MaxShiftedSegs}}
    \cup {MkTranscript(RepeatIds(blk, Repeats)) : blk \in LongBlocks}
    \cup {ShortTranscript}

\* irregular transcripts: segments taken with their own start times, so that a
\* transcript may be out of order and overlapping, among them a zero-length
\* segment, a segment of negative duration and a segment whose text is empty
MaxIrregularSegs == 3
IrregularSegments ==
  << [start |-> 0, duration |-> 70, text |-> <<"jadi", "intinya", "kamu", "harus", "fokus">>],
     [start |-> 0, duration |-> 0,
      text |-> <<"intinya", "kamu", "harus", "fokus", "karena", "itu", "kunci", "sukses">>],
     [start |-> 70, duration |-> -50,
      text |-> <<"hasilnya", "50", "ribu", "artinya", "untungnya", "segini">>],
     [start |-> 30, duration |-> 70, text |-> <<>>],
     [start |-> 200, duration |-> 700,
      text |-> <<"kamu", "harus", "fokus", "sama", "tujuan", "hidup", "kamu">>],
     [start |-> 100, duration |-> 30, text |-> <<"eee", "jadi", "gitu", "ya">>] >>

IrregularTranscripts ==
  {[k \in 1..Len(ids) |-> IrregularSegments[ids[k]]] :
     ids \in SeqsUpTo(1..Len(IrregularSegments), MaxIrregularSegs)}

\* the transcripts two calls are run on: the long repeated ones, short ones, and
\* one whose first text says a word twice, which preprocessing cleans
TwiceIds == {<<7, 5>>, <<4, 5, 8>>, <<9, 1>>, <<10, 3>>}
StutteredTranscript ==
  [MkTranscript(<<1, 5>>) EXCEPT
     ![1].text = <<"intinya", "intinya", "kamu", "harus", "fokus", "karena", "itu", "kunci",
                   "sukses">>]
TwiceTranscripts ==
  {MkTranscript(RepeatIds(blk, Repeats)) : blk \in LongBlocks}
    \cup {MkTranscript(ids) : ids \in TwiceIds}
    \cup {StutteredTranscript}
TwiceProfiles == {<<NoLearning, KeenBias>>, <<StrictLearning, ZeroBias>>}

\* the transcripts of the totality check
\* a 12 s question followed by MaxFollowers questions of 1 s each, every one of
\* them an unresolved ending
MaxFollowers == 16
UnresolvedRun ==
  [i \in 1..(MaxFollowers + 1) |->
     [start |-> IF i = 1 THEN 0 ELSE 120 + 10 * (i - 2),
      duration |-> IF i = 1 THEN 120 ELSE 10,
      text |-> <<"hasilnya", "berapa", "?">>]]

TotalTranscripts == IrregularTranscripts

\* (learning profile, bias profile) pairs given to detect_highlights
DetectProfiles ==
  {<<NoLearning, ZeroBias>>, <<NoLearning, HarshBias>>, <<NoLearning, KeenBias>>,
   <<StrictLearning, ZeroBias>>}

\* arguments of apply_editorial_bias
MaxBaseScore == 2
BiasCategories == {"insight", "hard_advice", "educational"}
BiasDurations == {80, 150, 200, 400}
HookPositions == {[num |-> 0, den |-> 1], [num |-> 3, den |-> 10], [num |-> 1, den |-> 2], [num |-> 4, den |-> 5]}
BiasProfiles == {ZeroBias, HarshBias, KeenBias, CountOnlyBias, MildBias, TestBias}
LearningProfiles == {NoLearning, DormantLearning, StrictLearning, KindLearning}
PriorReasons == {<<>>, <<[desc |-> "Punchline", bias |-> 0, breakdown |-> <<>>]>>}

BiasCalls ==
  [base_score : 0..MaxBaseScore, category : BiasCategories, clip_duration : BiasDurations,
   is_punchline : BOOLEAN, hook_position : HookPositions, bias_profile : BiasProfiles,
   reasons : PriorReasons, learning_profile : LearningProfiles,
   insight_pass : BOOLEAN, full_insight : BOOLEAN]

\* accepted and rejected counts handed to _compute_bias
MaxCount == 12

\* window specs handed to _build_window_around
WindowKeys == {"punchline", "educational", "hard_advice", "lesson_learned", "insight"}

\* transcripts handed to _build_window_around: the catalogue transcripts, the
\* irregular ones and the run of unresolved questions
WindowTranscripts ==
  {MkTranscript(ids) : ids \in TranscriptIds \ {<<>>}}
    \cup (IrregularTranscripts \ {<<>>})
    \cup {UnresolvedRun}

\* texts handed to the segment analyzer: what one or two catalogue segments
\* say, and sentences that collect many reasons at once
MaxSaid == 2
ManyReasonTexts ==
  { <<"intinya", "kita", "harus", "fokus", "karena", "itu", "kunci", "sukses", "!">>,
    <<"jadi", "dulu", "saya", "gagal", "terus", "ya", "kan", "gitu", "?">>,
    <<"faktanya", "kesalahan", "itu", "fatal">>,
    <<"apa", "itu", "?">>,
    <<>> }
ScoredTexts ==
  {JoinTexts([k \in 1..Len(ids) |-> Catalog[ids[k]].text]) :
     ids \in SeqsUpTo(1..Len(Catalog), MaxSaid)}
    \cup ManyReasonTexts

\* candidate lists handed to step 9: pairwise non-duplicate clips
MaxCands == 3
RankScores == {3, 6, 7, 10}
\* <<start, end, over>>
RankIntervals ==
  {<<0, 100, FALSE>>, <<0, 200, FALSE>>, <<150, 400, FALSE>>, <<450, 550, FALSE>>,
   <<600, 1200, FALSE>>, <<1254, 1854, TRUE>>}
RankPool ==
  {[start |-> iv[1], end |-> iv[2], score |-> sc, category |-> "insight",
    idx |-> 1, l |-> 1, r |-> 1, over |-> iv[3], from |-> "primary"] :
     iv \in RankIntervals, sc \in RankScores}

no_duplicates(cs) ==
  \A i, j \in 1..Len(cs) :
    i # j => ~overlap_at_least_60(cs[i].start, cs[i].end, cs[j].start, cs[j].end)

RankLists == {cs \in SeqsUpTo(RankPool, MaxCands) : no_duplicates(cs)}

(***************************************************************************)
(* editorial_memory.py: loading the profiles from the feedback store.      *)
(* An optional column value is <<>> (None) or <<v>>; a text column that    *)
(* holds JSON is [form, items], form being what json.loads makes of it;    *)
(* a reason is the sequence of its lower-cased words.                      *)
(***************************************************************************)
WEAKNESS_TYPES ==
  {"too_short", "too_long", "weak_opening", "weak_closing", "unclear_topic", "no_insight",
   "too_much_context", "missing_reasoning", "no_takeaway"}

STRENGTH_TYPES ==
  {"strong_opening", "clear_insight", "good_duration", "strong_reasoning", "clear_takeaway",
   "standalone_value", "good_topic_choice"}

\* the pattern names in str order (sorted() breaks ties of the counts by key)
PatternOrder ==
  <<"clear_insight", "clear_takeaway", "good_duration", "good_topic_choice",
    "missing_reasoning", "no_insight", "no_takeaway", "standalone_value", "strong_opening",
    "strong_reasoning", "too_long", "too_much_context", "too_short", "unclear_topic",
    "weak_closing", "weak_opening">>

pattern_rank(w) == CHOOSE i \in 1..Len(PatternOrder) : PatternOrder[i] = w

_safe_json_list(value) == IF value.form = "list" THEN value.items ELSE <<>>

RECURSIVE SumSeq(_)
SumSeq(xs) == IF xs = <<>> THEN 0 ELSE Head(xs) + SumSeq(Tail(xs))

\* counter is a dict key -> count; the k first keys by (count, key) descending
_top_k_counts(counter, k) ==
  LET before(a, b) ==
        \/ counter[a] > counter[b]
        \/ (counter[a] = counter[b] /\ pattern_rank(a) > pattern_rank(b))
  IN {w \in DOMAIN counter : Cardinality({v \in DOMAIN counter : before(v, w)}) < k}

\* _rating_bias(avg, sp, sn) of a list of ratings rs: avg = sum / n,
\* round((avg - 5.5) / 4.5 * 3) is round((2 sum - 11 n) / (3 n))
_rating_bias(rs) ==
  LET n == Len(rs)
      bias == RoundHalfEven(2 * SumSeq(rs) - 11 * n, 3 * n)
      strong_pos == Cardinality({i \in 1..n : rs[i] >= 8})
      strong_neg == Cardinality({i \in 1..n : rs[i] <= 3})
  IN _clamp(bias + (IF 10 * strong_pos >= 3 * n THEN 1 ELSE 0)
                 - (IF 10 * strong_neg >= 3 * n THEN 1 ELSE 0), -3, 3)

\* _hook_bucket of an optional hook position
hook_bucket_of(hook_position) ==
  IF hook_position = <<>> THEN "mid" ELSE _hook_bucket(hook_position[1])

preferred_range_of(bucket) ==
  IF bucket = "<12s" THEN [min |-> 100, max |-> 120]
  ELSE IF bucket = "12-18s" THEN [min |-> 120, max |-> 180]
  ELSE IF bucket = "18-30s" THEN [min |-> 180, max |-> 300]
  ELSE [min |-> 300, max |-> 450]

\* occurrences of pattern w in the lists rows[k][field]
pattern_count(rows, field, w) ==
  Cardinality({ki \in (1..Len(rows)) \X (1..16) :
                 ki[2] <= Len(rows[ki[1]][field]) /\ rows[ki[1]][field][ki[2]] = w})

\* build_editorial_learning_profile for fewer than 6 rows: the punchline rating
\* bias and the behaviour adjustments need 6 rows (of one category) and keep
\* their defaults
build_editorial_learning_profile(rows) ==
  LET n == Len(rows)
      rating_of(r) == _clamp(r.rating, 1, 10)
      ratings(sel) == [i \in 1..Len(sel) |-> rating_of(sel[i])]
      bucket_of(r) == _duration_bucket(r.clip_duration)
      in_cat(c) == SelectSeq(rows, LAMBDA r : r.category = c)
      in_bucket(b) == SelectSeq(rows, LAMBDA r : bucket_of(r) = b)
      in_hook(h) == SelectSeq(rows, LAMBDA r : hook_bucket_of(r.hook_position) = h)
      in_cat_bucket(c, b) == SelectSeq(in_cat(c), LAMBDA r : bucket_of(r) = b)
      cats == {rows[k].category : k \in 1..n}
      rated_cats == {c \in cats : Len(in_cat(c)) >= 3}
      big_buckets(c) == {b \in DurationBuckets : Len(in_cat_bucket(c, b)) >= 2}
      first_seen(c, b) ==
        CHOOSE k \in 1..Len(in_cat(c)) :
          /\ bucket_of(in_cat(c)[k]) = b
          /\ \A j \in 1..(k - 1) : bucket_of(in_cat(c)[j]) # b
      \* average of b1 above that of b2, or equal and b1 seen first
      beats(c, b1, b2) ==
        LET s1 == SumSeq(ratings(in_cat_bucket(c, b1)))
            s2 == SumSeq(ratings(in_cat_bucket(c, b2)))
            n1 == Len(in_cat_bucket(c, b1))
            n2 == Len(in_cat_bucket(c, b2))
        IN s1 * n2 > s2 * n1 \/ (s1 * n2 = s2 * n1 /\ first_seen(c, b1) < first_seen(c, b2))
      best_bucket(c) ==
        CHOOSE b \in big_buckets(c) : \A other \in big_buckets(c) \ {b} : beats(c, b, other)
      weak_keys == {w \in WEAKNESS_TYPES : pattern_count(rows, "weaknesses", w) > 0}
      strong_keys == {s \in STRENGTH_TYPES : pattern_count(rows, "strengths", s) > 0}
  IN [present |-> TRUE,
      feedback_count |-> n,
      preferred_duration_range |->
        [c \in {c \in rated_cats : big_buckets(c) # {}} |-> preferred_range_of(best_bucket(c))],
      common_failure_patterns |->
        _top_k_counts([w \in weak_keys |-> pattern_count(rows, "weaknesses", w)], 4),
      common_success_patterns |->
        _top_k_counts([s \in strong_keys |-> pattern_count(rows, "strengths", s)], 4),
      rating_bias_by_category |-> [c \in rated_cats |-> _rating_bias(ratings(in_cat(c)))],
      rating_bias_by_duration |->
        [b \in {b \in DurationBuckets : Len(in_bucket(b)) >= 3} |->
           _rating_bias(ratings(in_bucket(b)))],
      rating_bias_by_hook_bucket |->
        [h \in {h \in {"early", "mid", "late"} : Len(in_hook(h)) >= 3} |->
           _rating_bias(ratings(in_hook(h)))],
      rating_bias_punchline |-> 0,
      min_duration_delta_by_category |-> EmptyMap,
      max_duration_delta_by_category |-> EmptyMap,
      max_pre_context_delta_by_category |-> EmptyMap,
      max_post_context_delta_by_category |-> EmptyMap,
      require_insight_all |-> FALSE,
      opening_strictness |-> 0]

\* EditorialLearningProfile()
ZeroLearning == [NoLearning EXCEPT !.present = TRUE]

\* float(r.clip_end - r.clip_start) raises TypeError on a None timestamp
feedback_row_raises(r) == r.clip_start = <<>> \/ r.clip_end = <<>>

\* the dict load_editorial_learning_profile_async makes of a ClipFeedback row
normalized_feedback(r) ==
  [category |-> IF r.category = "" THEN "unknown" ELSE r.category,
   clip_duration |-> r.clip_end[1] - r.clip_start[1],
   is_punchline |-> r.is_punchline # 0,
   hook_position |-> r.hook_position,
   rating |-> IF r.rating = 0 THEN 1 ELSE r.rating,
   weaknesses |-> SelectSeq(_safe_json_list(r.weaknesses), LAMBDA w : w \in WEAKNESS_TYPES),
   strengths |-> SelectSeq(_safe_json_list(r.strengths), LAMBDA s : s \in STRENGTH_TYPES)]

\* rows of the highlights table: score >= 8 counts as accepted, < 5 as rejected
is_neutral_row(h) == h.score < 8 /\ h.score >= 5

\* h.end - h.start raises TypeError on a None timestamp; neutral rows are
\* skipped before it
highlight_row_raises(h) == ~is_neutral_row(h) /\ (h.start = <<>> \/ h.end = <<>>)

mentions_punchline(h) == h.category = "punchline" \/ HasAny(h.reason, {"punchline"})
mentions_early_hook(h) ==
  adjacent(h.reason, {"early"}, {"hook"}) \/ adjacent(h.reason, {"hook"}, {"early"})

\* the profile load_editorial_bias computes from the rows it read
aggregate_editorial_bias(highlights) ==
  LET used == {k \in 1..Len(highlights) : ~is_neutral_row(highlights[k])}
      accepted(S) == Cardinality({k \in S : highlights[k].score >= 8})
      rejected(S) == Cardinality({k \in S : highlights[k].score < 5})
      by_cat(c) == {k \in used : highlights[k].category = c}
      by_bucket(b) ==
        {k \in used : _duration_bucket(highlights[k].end[1] - highlights[k].start[1]) = b}
      punch == {k \in used : mentions_punchline(highlights[k])}
      early == {k \in used : mentions_early_hook(highlights[k])}
      cats == {highlights[k].category : k \in used} \ {""}
  IN [category_bias |->
        [c \in {c \in cats : Cardinality(by_cat(c)) >= 3} |->
           _compute_bias(accepted(by_cat(c)), rejected(by_cat(c)))],
      duration_bias |->
        [b \in {b \in DurationBuckets : Cardinality(by_bucket(b)) >= 3} |->
           _compute_bias(accepted(by_bucket(b)), rejected(by_bucket(b)))],
      punchline_bias |->
        IF Cardinality(punch) >= 3 THEN _compute_bias(accepted(punch), rejected(punch)) ELSE 0,
      early_hook_bias |->
        IF Cardinality(early) >= 3 THEN _compute_bias(accepted(early), rejected(early)) ELSE 0,
      feedback_count |-> Len(highlights)]

\* the two loaders; a call is [loader, db_session, store], the store being
\* [fault, rows]: fault "import" makes the model import raise, "query" the read
Loaders == {"load_editorial_bias", "load_editorial_learning_profile_async"}

zero_profile_of(loader) == IF loader = "load_editorial_bias" THEN ZeroBias ELSE ZeroLearning

returned_profile(profile) == [raised |-> FALSE, profile |-> profile]

\* a loader without its except clause; the zero fallback is tested against this
\* variant
uncaught(loader) == [raised |-> TRUE, profile |-> <<>>]

\* except Exception: print a warning, return the zero profile
caught(loader) == returned_profile(zero_profile_of(loader))

rows_raise(loader, rows) ==
  \E k \in 1..Len(rows) :
    IF loader = "load_editorial_bias" THEN highlight_row_raises(rows[k])
    ELSE feedback_row_raises(rows[k])

aggregate(loader, rows) ==
  IF loader = "load_editorial_bias" THEN aggregate_editorial_bias(rows)
  ELSE build_editorial_learning_profile([k \in 1..Len(rows) |-> normalized_feedback(rows[k])])

\* is_zero() of a returned profile
profile_is_zero(loader, profile) ==
  IF loader = "load_editorial_bias" THEN bias_is_zero(profile) ELSE learning_is_zero(profile)

\* stores of the model
MaxRows == 3

HighlightRows ==
  { [score |-> 9, category |-> "educational", start |-> <<0>>, end |-> <<200>>,
     reason |-> <<"punchline", "kuat", ";", "early", "hook">>],
    [score |-> 3, category |-> "educational", start |-> <<0>>, end |-> <<100>>,
     reason |-> <<>>],
    [score |-> 6, category |-> "insight", start |-> <<0>>, end |-> <<>>, reason |-> <<>>],
    [score |-> 9, category |-> "", start |-> <<100>>, end |-> <<>>, reason |-> <<>>] }

FeedbackRows ==
  { [clip_start |-> <<0>>, clip_end |-> <<150>>, category |-> "insight", is_punchline |-> 0,
     hook_position |-> <<[num |-> 1, den |-> 10]>>, rating |-> 9,
     weaknesses |-> [form |-> "list", items |-> <<>>],
     strengths |-> [form |-> "list", items |-> <<"strong_opening", "clear_insight">>]],
    [clip_start |-> <<0>>, clip_end |-> <<150>>, category |-> "insight", is_punchline |-> 1,
     hook_position |-> <<>>, rating |-> 2,
     weaknesses |-> [form |-> "list", items |-> <<"too_short", "bogus">>],
     strengths |-> [form |-> "malformed", items |-> <<>>]],
    [clip_start |-> <<100>>, clip_end |-> <<500>>, category |-> "", is_punchline |-> 0,
     hook_position |-> <<[num |-> 4, den |-> 5]>>, rating |-> 0,
     weaknesses |-> [form |-> "null", items |-> <<>>],
     strengths |-> [form |-> "object", items |-> <<>>]],
    [clip_start |-> <<0>>, clip_end |-> <<>>, category |-> "insight", is_punchline |-> 0,
     hook_position |-> <<>>, rating |-> 7,
     weaknesses |-> [form |-> "list", items |-> <<"no_insight">>],
     strengths |-> [form |-> "null", items |-> <<>>]] }

StoreFaults == {"none", "import", "query"}

\* each loader reads its own table
table_rows_of(loader) == IF loader = "load_editorial_bias" THEN HighlightRows ELSE FeedbackRows

LoaderCalls ==
  UNION {{[loader |-> f, db_session |-> s, store |-> [fault |-> fault, rows |-> rows]] :
            s \in {"None", "session"}, fault \in StoreFaults,
            rows \in SeqsUpTo(table_rows_of(f), MaxRows)} : f \in Loaders}

(***************************************************************************)
(* State.                                                                  *)
(***************************************************************************)
VARIABLES
  pc,                  \* position in detect_highlights / which function runs
  transcript,          \* the transcript argument
  learning_profile,    \* the learning_profile argument
  editorial_bias,      \* the editorial_bias argument
  cleaned_transcript,  \* transcript after preprocessing
  analysis,            \* seg_scores, seg_punch, seg_core_passes, educational_anchors, min_results
  queue,               \* anchors the running loop has not visited yet
  verdict,             \* outcome of the last loop iteration
  candidates,          \* the candidates list
  result,              \* the returned list
  bias_call,           \* arguments of the apply_editorial_bias call
  bias_result,         \* its return value and the reasons list after it
  wcenter,             \* center_index of the _build_window_around call
  wspec,               \* its window spec
  wstate,              \* its l, r and loop position
  window,              \* the clip window (l, r, start, end) it returned
  memory_call,         \* arguments of the helper function that runs on its own
  memory_result,       \* its return value
  other                \* the local variables of a second, suspended call of detect_highlights

vars == <<pc, transcript, learning_profile, editorial_bias, cleaned_transcript, analysis,
          queue, verdict, candidates, result, bias_call, bias_result, wcenter, wspec, wstate,
          window, memory_call, memory_result, other>>

detect_vars == <<transcript, learning_profile, editorial_bias, cleaned_transcript, analysis,
                 queue, verdict, candidates, result>>
bias_vars == <<bias_call, bias_result>>
window_vars == <<wcenter, wspec, wstate, window>>
memory_vars == <<memory_call, memory_result>>
\* what one call of detect_highlights owns: everything but its three arguments
local_vars == <<pc, cleaned_transcript, analysis, queue, verdict, candidates, result,
                bias_vars, window_vars>>

EmptyAnalysis ==
  [seg_scores |-> <<>>, seg_punch |-> <<>>, seg_core_passes |-> <<>>,
   educational_anchors |-> <<>>, min_results |-> 1]

IdleCall ==
  [base_score |-> 0, category |-> "insight", clip_duration |-> 0, is_punchline |-> FALSE,
   hook_position |-> [num |-> 1, den |-> 2], bias_profile |-> ZeroBias, reasons |-> <<>>,
   learning_profile |-> NoLearning, insight_pass |-> FALSE, full_insight |-> FALSE]

IdleDetect ==
  /\ learning_profile = NoLearning
  /\ editorial_bias = ZeroBias
  /\ cleaned_transcript = <<>>
  /\ analysis = EmptyAnalysis
  /\ queue = <<>>
  /\ verdict = "none"
  /\ candidates = <<>>
  /\ result = <<>>

IdleBias ==
  /\ bias_call = IdleCall
  /\ bias_result = [score |-> 0, reasons |-> <<>>]

IdleMemory ==
  /\ memory_call = <<>>
  /\ memory_result = <<>>

\* no second call of detect_highlights
SoleCall == other = <<>>

NoWindow == [idx |-> 0, l |-> 0, r |-> 0, start |-> 0, end |-> 0, over |-> FALSE]

IdleWindow ==
  /\ wcenter = 0
  /\ wspec = base_profile("insight")
  /\ wstate = [pc |-> "idle", l |-> 0, r |-> 0, cnt |-> 0, expanded |-> FALSE]
  /\ window = NoWindow

\* entry of detect_highlights
Init ==
  /\ pc = "start"
  /\ transcript \in Transcripts
  /\ \E p \in DetectProfiles : learning_profile = p[1] /\ editorial_bias = p[2]
  /\ cleaned_transcript = <<>>
  /\ analysis = EmptyAnalysis
  /\ queue = <<>>
  /\ verdict = "none"
  /\ candidates = <<>>
  /\ result = <<>>
  /\ IdleBias
  /\ IdleWindow
  /\ IdleMemory
  /\ SoleCall

\* entry of detect_highlights with an irregular transcript
InitTotal ==
  /\ pc = "start"
  /\ transcript \in TotalTranscripts
  /\ \E p \in DetectProfiles : learning_profile = p[1] /\ editorial_bias = p[2]
  /\ cleaned_transcript = <<>>
  /\ analysis = EmptyAnalysis
  /\ queue = <<>>
  /\ verdict = "none"
  /\ candidates = <<>>
  /\ result = <<>>
  /\ IdleBias
  /\ IdleWindow
  /\ IdleMemory
  /\ SoleCall

\* entry of apply_editorial_bias
InitBias ==
  /\ pc = "bias"
  /\ bias_call \in BiasCalls
  /\ bias_result = [score |-> 0, reasons |-> <<>>]
  /\ transcript = <<>>
  /\ IdleDetect
  /\ IdleWindow
  /\ IdleMemory
  /\ SoleCall

\* entry of _build_window_around
InitWindow ==
  /\ pc = "window"
  /\ cleaned_transcript \in WindowTranscripts
  /\ wcenter \in 1..Len(cleaned_transcript)
  /\ wspec \in {base_profile(k) : k \in WindowKeys}
  /\ wstate = WInit(cleaned_transcript, wcenter)
  /\ window = NoWindow
  /\ transcript = <<>>
  /\ learning_profile = NoLearning
  /\ editorial_bias = ZeroBias
  /\ analysis = EmptyAnalysis
  /\ queue = <<>>
  /\ verdict = "none"
  /\ candidates = <<>>
  /\ result = <<>>
  /\ IdleBias
  /\ IdleMemory
  /\ SoleCall

\* entry of step 9 of detect_highlights
InitRank ==
  /\ pc = "rank"
  /\ candidates \in RankLists
  /\ \E m \in {1, 2} : analysis = [EmptyAnalysis EXCEPT !.min_results = m]
  /\ transcript = <<>>
  /\ learning_profile = NoLearning
  /\ editorial_bias = ZeroBias
  /\ cleaned_transcript = <<>>
  /\ queue = <<>>
  /\ verdict = "none"
  /\ result = <<>>
  /\ IdleBias
  /\ IdleWindow
  /\ IdleMemory
  /\ SoleCall

(***************************************************************************)
(* _build_window_around, one action per pass.  It runs on its own, and as  *)
(* the call made by each iteration of the two loops of detect_highlights.  *)
(***************************************************************************)
WindowPcs == {"window", "primary_window", "backfill_window"}

\* pass 1: expand to the minimum duration and context
ExpandToMinimum ==
  /\ pc \in WindowPcs /\ wstate.pc = "pass1"
  /\ wstate' = Pass1Step(cleaned_transcript, wcenter, wspec, wstate)
  /\ UNCHANGED <<pc, wcenter, wspec, window, detect_vars, bias_vars>>
  /\ UNCHANGED <<memory_vars, other>>

\* pass 2: opportunistic expansion
ExpandOpportunistic ==
  /\ pc \in WindowPcs /\ wstate.pc = "pass2"
  /\ wstate' = Pass2Step(cleaned_transcript, wcenter, wspec, wstate)
  /\ UNCHANGED <<pc, wcenter, wspec, window, detect_vars, bias_vars>>
  /\ UNCHANGED <<memory_vars, other>>

\* insight completion: is a forced expansion needed
InsightCompletion ==
  /\ pc \in WindowPcs /\ wstate.pc = "insight"
  /\ wstate' = InsightCheck(cleaned_transcript, wcenter, wspec, wstate)
  /\ UNCHANGED <<pc, wcenter, wspec, window, detect_vars, bias_vars>>
  /\ UNCHANGED <<memory_vars, other>>

\* forced insight expansion
ForceInsight ==
  /\ pc \in WindowPcs /\ wstate.pc = "force"
  /\ wstate' = ForceStep(cleaned_transcript, wcenter, wspec, wstate)
  /\ UNCHANGED <<pc, wcenter, wspec, window, detect_vars, bias_vars>>
  /\ UNCHANGED <<memory_vars, other>>

\* trim weak leads
TrimLeft ==
  /\ pc \in WindowPcs /\ wstate.pc = "trim_left"
  /\ wstate' = TrimLeftStep(cleaned_transcript, wcenter, wspec, wstate)
  /\ UNCHANGED <<pc, wcenter, wspec, window, detect_vars, bias_vars>>
  /\ UNCHANGED <<memory_vars, other>>

\* trim weak tails
TrimRight ==
  /\ pc \in WindowPcs /\ wstate.pc = "trim_right"
  /\ wstate' = TrimRightStep(cleaned_transcript, wcenter, wspec, wstate)
  /\ UNCHANGED <<pc, wcenter, wspec, window, detect_vars, bias_vars>>
  /\ UNCHANGED <<memory_vars, other>>

\* hanging start: is a repair needed
HangingStartCheck ==
  /\ pc \in WindowPcs /\ wstate.pc = "hang_check"
  /\ wstate' = HangCheck(cleaned_transcript, wcenter, wspec, wstate)
  /\ UNCHANGED <<pc, wcenter, wspec, window, detect_vars, bias_vars>>
  /\ UNCHANGED <<memory_vars, other>>

\* hanging-start repair
HangingStartRepair ==
  /\ pc \in WindowPcs /\ wstate.pc = "hang"
  /\ wstate' = HangStep(cleaned_transcript, wcenter, wspec, wstate)
  /\ UNCHANGED <<pc, wcenter, wspec, window, detect_vars, bias_vars>>
  /\ UNCHANGED <<memory_vars, other>>

\* forced resolution extension
ResolutionExtension ==
  /\ pc \in WindowPcs /\ wstate.pc = "extend"
  /\ wstate' = ExtendStep(cleaned_transcript, wcenter, wspec, wstate)
  /\ UNCHANGED <<pc, wcenter, wspec, window, detect_vars, bias_vars>>
  /\ UNCHANGED <<memory_vars, other>>

\* educational floor: does it apply
EducationalCheck ==
  /\ pc \in WindowPcs /\ wstate.pc = "edu_check"
  /\ wstate' = EduCheck(cleaned_transcript, wcenter, wspec, wstate)
  /\ UNCHANGED <<pc, wcenter, wspec, window, detect_vars, bias_vars>>
  /\ UNCHANGED <<memory_vars, other>>

\* educational minimum duration
EducationalFloor ==
  /\ pc \in WindowPcs /\ wstate.pc = "edu_floor"
  /\ wstate' = EduFloorStep(cleaned_transcript, wcenter, wspec, wstate)
  /\ UNCHANGED <<pc, wcenter, wspec, window, detect_vars, bias_vars>>
  /\ UNCHANGED <<memory_vars, other>>

\* final timestamps with roll, and the return to the caller
ReturnWindow ==
  /\ pc \in WindowPcs /\ wstate.pc = "final"
  /\ wstate' = FinalStep(cleaned_transcript, wcenter, wspec, wstate)
  /\ window' = [idx |-> wcenter, l |-> wstate.l, r |-> wstate.r,
                start |-> window_start(cleaned_transcript, wspec, wstate),
                end |-> window_end(cleaned_transcript, wspec, wstate),
                over |-> FALSE]
  /\ pc' = IF pc = "primary_window" THEN "primary_cap"
           ELSE IF pc = "backfill_window" THEN "backfill_cap"
           ELSE "window_done"
  /\ UNCHANGED <<wcenter, wspec, detect_vars, bias_vars>>
  /\ UNCHANGED <<memory_vars, other>>

NextWindow ==
  \/ ExpandToMinimum \/ ExpandOpportunistic \/ InsightCompletion \/ ForceInsight
  \/ TrimLeft \/ TrimRight \/ HangingStartCheck \/ HangingStartRepair
  \/ ResolutionExtension \/ EducationalCheck \/ EducationalFloor \/ ReturnWindow

SpecWindow == InitWindow /\ [][NextWindow]_vars

(***************************************************************************)
(* apply_editorial_bias, on its own and as the call of the primary loop.   *)
(***************************************************************************)
ApplyBias ==
  /\ pc \in {"bias", "primary_bias"}
  /\ bias_result' = apply_editorial_bias(bias_call)
  /\ pc' = IF pc = "primary_bias" THEN "primary_final" ELSE "bias_done"
  /\ UNCHANGED <<bias_call, detect_vars, window_vars>>
  /\ UNCHANGED <<memory_vars, other>>

NextBias == ApplyBias

SpecBias == InitBias /\ [][NextBias]_vars

(***************************************************************************)
(* _compute_bias on its own.                                               *)
(***************************************************************************)
\* entry of _compute_bias
InitCompute ==
  /\ pc = "compute"
  /\ memory_call \in [accepted : 0..MaxCount, rejected : 0..MaxCount]
  /\ memory_result = <<>>
  /\ transcript = <<>>
  /\ IdleDetect
  /\ IdleBias
  /\ IdleWindow
  /\ SoleCall

ComputeBias ==
  /\ pc = "compute"
  /\ memory_result' = _compute_bias(memory_call.accepted, memory_call.rejected)
  /\ pc' = "compute_done"
  /\ UNCHANGED <<memory_call, detect_vars, bias_vars, window_vars, other>>

NextCompute == ComputeBias

SpecCompute == InitCompute /\ [][NextCompute]_vars

(***************************************************************************)
(* _score_text on its own.                                                 *)
(***************************************************************************)
\* entry of _score_text
InitScore ==
  /\ pc = "score"
  /\ memory_call \in [text : ScoredTexts]
  /\ memory_result = <<>>
  /\ transcript = <<>>
  /\ IdleDetect
  /\ IdleBias
  /\ IdleWindow
  /\ SoleCall

ScoreText ==
  /\ pc = "score"
  /\ memory_result' = segment_analysis(memory_call.text)
  /\ pc' = "score_done"
  /\ UNCHANGED <<memory_call, detect_vars, bias_vars, window_vars, other>>

NextScore == ScoreText

SpecScore == InitScore /\ [][NextScore]_vars

(***************************************************************************)
(* _dynamic_window_profile on its own: any anchor text, any learning       *)
(* profile.                                                                *)
(***************************************************************************)
\* anchor texts of every category of the table
AnchorTexts ==
  {Catalog[i].text : i \in DOMAIN Catalog}
    \cup {<<"dulu", "saya", "sering", "begadang", "tiap", "malam">>,
          <<"semangat", "terus", "dan", "yakin", "sama", "prosesnya">>}

\* deltas (tenths of a second) of either sign, small and larger than any
\* duration of the table
MaxDelta == 400
Deltas == {0 - MaxDelta, 0 - 30, 0, 40, MaxDelta}

ProfileKeys == Categories \cup {"punchline"}

\* a profile with feedback whose deltas are the same for every category
learning_with(dmin, dmax, dpre, dpost) ==
  [NoLearning EXCEPT !.present = TRUE, !.feedback_count = 8,
     !.min_duration_delta_by_category = [c \in ProfileKeys |-> dmin],
     !.max_duration_delta_by_category = [c \in ProfileKeys |-> dmax],
     !.max_pre_context_delta_by_category = [c \in ProfileKeys |-> dpre],
     !.max_post_context_delta_by_category = [c \in ProfileKeys |-> dpost]]

DeltaProfiles ==
  {learning_with(dmin, dmax, dpre, dpost) : dmin \in Deltas, dmax \in Deltas,
                                           dpre \in Deltas, dpost \in Deltas}
    \cup LearningProfiles

InitProfile ==
  /\ pc = "profile"
  /\ memory_call \in [anchor_text : AnchorTexts, learning_profile : DeltaProfiles]
  /\ memory_result = <<>>
  /\ transcript = <<>>
  /\ IdleDetect
  /\ IdleBias
  /\ IdleWindow
  /\ SoleCall

DynamicWindowProfile ==
  /\ pc = "profile"
  /\ memory_result' = _dynamic_window_profile(memory_call.anchor_text, memory_call.learning_profile)
  /\ pc' = "profile_done"
  /\ UNCHANGED <<memory_call, detect_vars, bias_vars, window_vars, other>>

NextProfile == DynamicWindowProfile

SpecProfile == InitProfile /\ [][NextProfile]_vars

(***************************************************************************)
(* load_editorial_bias and load_editorial_learning_profile_async.          *)
(***************************************************************************)
\* entry of a loader
InitLoad ==
  /\ pc = "load"
  /\ memory_call \in LoaderCalls
  /\ memory_result = <<>>
  /\ transcript = <<>>
  /\ IdleDetect
  /\ IdleBias
  /\ IdleWindow
  /\ SoleCall

\* if db_session is None: return the zero profile
LoadEntry ==
  /\ pc = "load"
  /\ IF memory_call.db_session = "None"
     THEN /\ memory_result' = returned_profile(zero_profile_of(memory_call.loader))
          /\ pc' = "load_done"
     ELSE /\ pc' = "load_query"
          /\ UNCHANGED memory_result
  /\ UNCHANGED <<memory_call, detect_vars, bias_vars, window_vars, other>>

\* inside try: import of the model classes, read of every row; load_editorial_bias
\* returns the zero profile when it read no row
LoadQuery ==
  /\ pc = "load_query"
  /\ IF memory_call.store.fault # "none"
     THEN /\ memory_result' = caught(memory_call.loader)
          /\ pc' = "load_done"
     ELSE IF memory_call.loader = "load_editorial_bias" /\ memory_call.store.rows = <<>>
     THEN /\ memory_result' = returned_profile(ZeroBias)
          /\ pc' = "load_done"
     ELSE /\ pc' = "load_rows"
          /\ UNCHANGED memory_result
  /\ UNCHANGED <<memory_call, detect_vars, bias_vars, window_vars, other>>

\* inside try: the loop over the rows and the profile built from them
LoadAggregate ==
  /\ pc = "load_rows"
  /\ memory_result' =
       IF rows_raise(memory_call.loader, memory_call.store.rows)
       THEN caught(memory_call.loader)
       ELSE returned_profile(aggregate(memory_call.loader, memory_call.store.rows))
  /\ pc' = "load_done"
  /\ UNCHANGED <<memory_call, detect_vars, bias_vars, window_vars, other>>

NextLoad == LoadEntry \/ LoadQuery \/ LoadAggregate

SpecLoad == InitLoad /\ [][NextLoad]_vars

(***************************************************************************)
(* Actions of detect_highlights.                                           *)
(***************************************************************************)
\* empty-input return, preprocessing, steps 1-2
\* a preprocessing that writes the cleaned text into the caller's records
records_cleaned_in_place(T, cleaned) == cleaned

\* the caller's records after preprocessing: cleaned_seg = seg.copy() gives every
\* cleaned text to a copy, the records the caller passed keep theirs
records_after_cleaning(T, cleaned) == T

\* step 1 raises ZeroDivisionError when _score_text divides by a word count of 0
scoring_raises(T) == \E i \in 1..Len(T) : 0 \in word_count_divisors(T[i].text)

Analyze ==
  /\ pc = "start"
  /\ IF transcript = <<>>
     THEN /\ pc' = "done"
          /\ UNCHANGED <<transcript, cleaned_transcript, analysis, queue>>
     ELSE /\ cleaned_transcript' = clean_transcript(transcript)
          /\ transcript' = records_after_cleaning(transcript, cleaned_transcript')
          /\ IF scoring_raises(cleaned_transcript')
             THEN /\ pc' = "raised"
                  /\ UNCHANGED <<analysis, queue>>
             ELSE /\ pc' = "primary"
                  /\ analysis' = analysis_of(cleaned_transcript')
                  /\ queue' = ranked_indices_of(analysis')
  /\ UNCHANGED <<learning_profile, editorial_bias, verdict, candidates, result>>
  /\ UNCHANGED <<bias_vars, window_vars>>
  /\ UNCHANGED <<memory_vars, other>>

\* primary loop: next anchor, anchor gate, window profile, call of _build_window_around
PrimaryPick ==
  /\ pc = "primary"
  /\ queue # <<>>
  /\ Len(candidates) < max_results
  /\ IF anchor_gate(analysis, Head(queue))
     THEN /\ pc' = "primary_window"
          /\ wcenter' = Head(queue)
          /\ wspec' = _dynamic_window_profile(cleaned_transcript[Head(queue)].text, learning_profile)
          /\ wstate' = WInit(cleaned_transcript, Head(queue))
          /\ UNCHANGED <<queue, verdict>>
     ELSE /\ verdict' = "anchor"
          /\ queue' = Tail(queue)
          /\ UNCHANGED <<pc, wcenter, wspec, wstate>>
  /\ UNCHANGED <<transcript, learning_profile, editorial_bias, cleaned_transcript, analysis,
                 candidates, result, bias_vars, window>>
  /\ UNCHANGED <<memory_vars, other>>

\* both loops: the 60 s cap on the returned window
CapWindow ==
  /\ pc \in {"primary_cap", "backfill_cap"}
  /\ window' = cap_window(cleaned_transcript, wspec, window)
  /\ pc' = IF pc = "primary_cap" THEN "primary_gates" ELSE "backfill_gates"
  /\ UNCHANGED <<detect_vars, bias_vars, wcenter, wspec, wstate>>
  /\ UNCHANGED <<memory_vars, other>>

\* primary loop: dedup, gates 1-5, scoring, arguments of apply_editorial_bias
PrimaryGates ==
  /\ pc = "primary_gates"
  /\ IF gates_verdict(cleaned_transcript, analysis, window, learning_profile, candidates) = "pass"
     THEN /\ pc' = "primary_bias"
          /\ bias_call' = bias_call_of(cleaned_transcript, analysis, window, learning_profile,
                                       editorial_bias)
          /\ UNCHANGED <<queue, verdict>>
     ELSE /\ verdict' = gates_verdict(cleaned_transcript, analysis, window, learning_profile,
                                      candidates)
          /\ queue' = Tail(queue)
          /\ pc' = "primary"
          /\ UNCHANGED bias_call
  /\ UNCHANGED <<transcript, learning_profile, editorial_bias, cleaned_transcript, analysis,
                 candidates, result, bias_result, window_vars>>
  /\ UNCHANGED <<memory_vars, other>>

\* primary loop: final validation on the biased score, append
PrimaryFinal ==
  /\ pc = "primary_final"
  /\ verdict' = final_verdict(cleaned_transcript, analysis, window, bias_result.score)
  /\ candidates' =
       IF verdict' = "accept"
       THEN Append(candidates, candidate_of(cleaned_transcript, window, bias_result.score))
       ELSE candidates
  /\ queue' = Tail(queue)
  /\ pc' = "primary"
  /\ UNCHANGED <<transcript, learning_profile, editorial_bias, cleaned_transcript, analysis,
                 result, bias_vars, window_vars>>
  /\ UNCHANGED <<memory_vars, other>>

\* the primary loop ends (exhausted, or max_results reached); backfill starts if needed
PrimaryExit ==
  /\ pc = "primary"
  /\ (queue = <<>> \/ Len(candidates) >= max_results)
  /\ IF Len(candidates) < analysis.min_results
     THEN pc' = "backfill" /\ queue' = fallback_order_of(analysis)
     ELSE pc' = "rank" /\ queue' = <<>>
  /\ verdict' = "none"
  /\ UNCHANGED <<transcript, learning_profile, editorial_bias, cleaned_transcript,
                 analysis, candidates, result>>
  /\ UNCHANGED <<bias_vars, window_vars>>
  /\ UNCHANGED <<memory_vars, other>>

\* backfill loop: next segment, core and score checks, window profile, call of
\* _build_window_around
BackfillPick ==
  /\ pc = "backfill"
  /\ queue # <<>>
  /\ Len(candidates) < analysis.min_results
  /\ IF analysis.seg_core_passes[Head(queue)] /\ analysis.seg_scores[Head(queue)] >= 3
     THEN /\ pc' = "backfill_window"
          /\ wcenter' = Head(queue)
          /\ wspec' = _dynamic_window_profile(cleaned_transcript[Head(queue)].text, learning_profile)
          /\ wstate' = WInit(cleaned_transcript, Head(queue))
          /\ UNCHANGED <<queue, verdict>>
     ELSE /\ verdict' = IF analysis.seg_core_passes[Head(queue)] THEN "score" ELSE "core"
          /\ queue' = Tail(queue)
          /\ UNCHANGED <<pc, wcenter, wspec, wstate>>
  /\ UNCHANGED <<transcript, learning_profile, editorial_bias, cleaned_transcript, analysis,
                 candidates, result, bias_vars, window>>
  /\ UNCHANGED <<memory_vars, other>>

\* backfill loop: dedup, core check of the window, insight layer, append
BackfillJudge ==
  /\ pc = "backfill_gates"
  /\ verdict' = backfill_verdict(cleaned_transcript, analysis, window, learning_profile,
                                 candidates)
  /\ candidates' =
       IF verdict' = "accept"
       THEN Append(candidates, backfill_candidate(cleaned_transcript, analysis, window,
                                                   learning_profile))
       ELSE candidates
  /\ queue' = Tail(queue)
  /\ pc' = "backfill"
  /\ UNCHANGED <<transcript, learning_profile, editorial_bias, cleaned_transcript, analysis,
                 result, bias_vars, window_vars>>
  /\ UNCHANGED <<memory_vars, other>>

\* the backfill loop ends (exhausted, or min_results reached)
BackfillExit ==
  /\ pc = "backfill"
  /\ (queue = <<>> \/ Len(candidates) >= analysis.min_results)
  /\ pc' = "rank"
  /\ queue' = <<>>
  /\ verdict' = "none"
  /\ UNCHANGED <<transcript, learning_profile, editorial_bias, cleaned_transcript,
                 analysis, candidates, result>>
  /\ UNCHANGED <<bias_vars, window_vars>>
  /\ UNCHANGED <<memory_vars, other>>

\* step 9 and the return
Finalize ==
  /\ pc = "rank"
  /\ \E sorted \in list_sort(candidates) : result' = cutoff_select(sorted, analysis.min_results)
  /\ pc' = "done"
  /\ UNCHANGED <<transcript, learning_profile, editorial_bias, cleaned_transcript,
                 analysis, queue, verdict, candidates>>
  /\ UNCHANGED <<bias_vars, window_vars>>
  /\ UNCHANGED <<memory_vars, other>>

Next ==
  \/ Analyze \/ PrimaryPick \/ CapWindow \/ PrimaryGates \/ ApplyBias \/ PrimaryFinal
  \/ PrimaryExit \/ BackfillPick \/ BackfillJudge \/ BackfillExit \/ Finalize
  \/ NextWindow

Spec == Init /\ [][Next]_vars

\* the local variables of the running call, and of a call that has not started
frame ==
  [pc |-> pc, cleaned_transcript |-> cleaned_transcript, analysis |-> analysis,
   queue |-> queue, verdict |-> verdict, candidates |-> candidates, result |-> result,
   bias_call |-> bias_call, bias_result |-> bias_result, wcenter |-> wcenter,
   wspec |-> wspec, wstate |-> wstate, window |-> window]

fresh_frame ==
  [pc |-> "start", cleaned_transcript |-> <<>>, analysis |-> EmptyAnalysis,
   queue |-> <<>>, verdict |-> "none", candidates |-> <<>>, result |-> <<>>,
   bias_call |-> IdleCall, bias_result |-> [score |-> 0, reasons |-> <<>>], wcenter |-> 0,
   wspec |-> base_profile("insight"),
   wstate |-> [pc |-> "idle", l |-> 0, r |-> 0, cnt |-> 0, expanded |-> FALSE],
   window |-> NoWindow]

\* two calls of detect_highlights on the same transcript and profile objects
InitTwice ==
  /\ pc = "start"
  /\ transcript \in TwiceTranscripts
  /\ \E p \in TwiceProfiles : learning_profile = p[1] /\ editorial_bias = p[2]
  /\ cleaned_transcript = <<>>
  /\ analysis = EmptyAnalysis
  /\ queue = <<>>
  /\ verdict = "none"
  /\ candidates = <<>>
  /\ result = <<>>
  /\ IdleBias
  /\ IdleWindow
  /\ IdleMemory
  /\ other = <<fresh_frame>>

\* the running call is suspended and the other call goes on: each call has its
\* own local variables, the three argument objects are the same for both
Switch ==
  /\ other # <<>>
  /\ other' = <<frame>>
  /\ pc' = other[1].pc
  /\ cleaned_transcript' = other[1].cleaned_transcript
  /\ analysis' = other[1].analysis
  /\ queue' = other[1].queue
  /\ verdict' = other[1].verdict
  /\ candidates' = other[1].candidates
  /\ result' = other[1].result
  /\ bias_call' = other[1].bias_call
  /\ bias_result' = other[1].bias_result
  /\ wcenter' = other[1].wcenter
  /\ wspec' = other[1].wspec
  /\ wstate' = other[1].wstate
  /\ window' = other[1].window
  /\ UNCHANGED <<transcript, learning_profile, editorial_bias, memory_vars>>

NextTwice == Next \/ Switch

SpecTwice == InitTwice /\ [][NextTwice]_vars

\* detect_highlights on the irregular transcripts, every started step being
\* carried on: the interpreter never stops in the middle of a call
SpecTotal == InitTotal /\ [][Next]_vars /\ WF_vars(Next)

NextRank == Finalize

SpecRank == InitRank /\ [][NextRank]_vars

(***************************************************************************)
(* Properties of apply_editorial_bias.                                     *)
(***************************************************************************)
\* the sum of every contribution the call collected, before the clamp
raw_total_bias(a) ==
  SumBias(history_biases(a) \o (IF learning_active(a.learning_profile) THEN learning_biases(a) ELSE <<>>))

\* C1: whenever apply_editorial_bias has returned, whatever its arguments, the
\* returned score differs from base_score by at most 4 in absolute value.
C1_BiasBounded ==
  pc \in {"bias_done", "primary_final"} => Abs(bias_result.score - bias_call.base_score) <= 4

\* a call whose contributions add up to more than 4, learning profile in play,
\* has returned base_score + 4
C1_Witness ==
  /\ pc = "bias_done"
  /\ learning_active(bias_call.learning_profile)
  /\ raw_total_bias(bias_call) > 4
  /\ bias_result.score = bias_call.base_score + 4

\* C2: when the bias profile is zero and the learning profile is absent or has
\* feedback_count 0, apply_editorial_bias returns exactly base_score and leaves
\* the reasons list as it was.
C2_ZeroProfilesReturnBase ==
  (/\ pc \in {"bias_done", "primary_final"}
   /\ bias_is_zero(bias_call.bias_profile)
   /\ (~bias_call.learning_profile.present \/ bias_call.learning_profile.feedback_count = 0))
  => /\ bias_result.score = bias_call.base_score
     /\ bias_result.reasons = bias_call.reasons

\* a call with a zero bias profile and a present learning profile of
\* feedback_count 0 whose fields would contribute if they were read, on a
\* non-empty reasons list, has returned
C2_Witness ==
  /\ pc = "bias_done"
  /\ bias_is_zero(bias_call.bias_profile)
  /\ bias_call.learning_profile.present
  /\ bias_call.learning_profile.feedback_count = 0
  /\ SumBias(learning_biases(bias_call)) # 0
  /\ bias_call.reasons # <<>>
  /\ bias_call.base_score # 0
  /\ bias_result.score = bias_call.base_score

(***************************************************************************)
(* Properties of detect_highlights.                                        *)
(***************************************************************************)
\* the window a candidate was cut from
window_of(c) ==
  [idx |-> c.idx, l |-> c.l, r |-> c.r, start |-> c.start, end |-> c.end, over |-> c.over]

\* the candidates list in a state where it is final (the returned list is a
\* sub-list of it)
returned == {result[k] : k \in 1..Len(result)}

\* C3: every pair of distinct candidates has IoU strictly below 0.60, in the
\* candidates list after every acceptance of either pass and in the returned list.
C3_NonOverlap == no_duplicates(candidates) /\ no_duplicates(result)

\* the returned list holds a primary and a backfill candidate, and the last
\* window the backfill pass looked at was refused as a duplicate
C3_Witness ==
  /\ pc = "done"
  /\ \E i, j \in 1..Len(result) : result[i].from = "primary" /\ result[j].from = "backfill"
  /\ is_duplicate(window, candidates)

\* C5: every candidate, accepted by either pass, has end - start of at most 60 s,
\* also when a single segment is longer than 60 s.
C5_MaxDuration ==
  /\ \A k \in 1..Len(candidates) :
       candidates[k].end - candidates[k].start <= max_clip_len /\ ~candidates[k].over
  /\ \A k \in 1..Len(result) :
       result[k].end - result[k].start <= max_clip_len /\ ~result[k].over

\* a candidate is a punchline clip when its anchor or its window text is a punchline
is_punchline_candidate(c) ==
  analysis.seg_punch[c.idx] \/ _is_punchline(window_text(cleaned_transcript, window_of(c)))

meets_hard_minimum(c) ==
  c.end - c.start >= hard_min_of(is_punchline_candidate(c), c.category)

\* C4: every candidate of either pass lasts at least the hard minimum of its
\* kind (8 s punchline clip, 18 s educational, 15 s warning and lesson_learned,
\* 12 s otherwise).
C4_HardMinimum ==
  /\ \A k \in 1..Len(candidates) : meets_hard_minimum(candidates[k])
  /\ \A k \in 1..Len(result) : meets_hard_minimum(result[k])

\* C6: no returned candidate has a window that fails the completeness rule of
\* gate G4, whichever pass built it.
C6_CompleteWindows ==
  pc = "done" => \A c \in returned : completeness_ok(cleaned_transcript, window_of(c))

\* C7: every window the backfill pass has added passes gates G2, G3, G4 and G5
\* as the primary pass applies them.
C7_BackfillSameGates ==
  \A k \in 1..Len(candidates) :
    candidates[k].from = "backfill"
      => /\ gate2(cleaned_transcript, window_of(candidates[k]))
         /\ gate3(cleaned_transcript, window_of(candidates[k]))
         /\ gate4(cleaned_transcript, window_of(candidates[k]))
         /\ gate5(cleaned_transcript, analysis, window_of(candidates[k]), learning_profile)

\* the structural gates: hard minimum, core pass of the window text, meaningful
\* segments, completeness, hanging ending, insight structure
passes_structural_gates(c) ==
  /\ meets_hard_minimum(c)
  /\ gate2(cleaned_transcript, window_of(c))
  /\ gate3(cleaned_transcript, window_of(c))
  /\ gate4(cleaned_transcript, window_of(c))
  /\ ~ends_hanging(cleaned_transcript, window_of(c))
  /\ gate5(cleaned_transcript, analysis, window_of(c), learning_profile)

\* the windows detect_highlights returns for the same transcript and learning
\* profile under the zero bias profile
unbiased_windows ==
  LET out == detect_highlights(transcript, learning_profile, ZeroBias)
  IN {window_of(out[k]) : k \in 1..Len(out)}

\* C8: a candidate that is in the output only because of the bias profile (its
\* window is not returned under the zero bias profile) passes every structural gate.
C8_NoLaundering ==
  pc = "done" =>
    \A c \in returned : window_of(c) \notin unbiased_windows => passes_structural_gates(c)

(***************************************************************************)
(* Properties of _build_window_around.                                     *)
(***************************************************************************)
\* C9: the window _build_window_around returns contains its anchor:
\* left_index <= center_index <= right_index after all passes.
C9_AnchorInside ==
  wstate.pc = "done" => wstate.l <= wcenter /\ wcenter <= wstate.r

(***************************************************************************)
(* Properties of the final ordering.                                       *)
(***************************************************************************)
\* end - start of a is at most that of b
no_longer_than(a, b) ==
  \/ a.end - a.start < b.end - b.start
  \/ (a.end - a.start = b.end - b.start /\ (a.over => b.over))

\* C10: along the returned list scores never increase and, among candidates of
\* equal score, durations never decrease, after cutoff and truncation.
C10_BestFirst ==
  pc = "done" =>
    \A i, j \in 1..Len(result) :
      i < j => /\ result[i].score >= result[j].score
               /\ (result[i].score = result[j].score => no_longer_than(result[i], result[j]))

\* the cutoff dropped a candidate, and two returned candidates of equal score
\* and different duration swapped places with respect to the candidates list
C10_Witness ==
  /\ pc = "done"
  /\ 1 < Len(result) /\ Len(result) < Len(candidates)
  /\ \E i \in 1..(Len(result) - 1), a, b \in 1..Len(candidates) :
       /\ result[i].score = result[i + 1].score
       /\ ~no_longer_than(result[i + 1], result[i])
       /\ a < b
       /\ candidates[a] = result[i + 1]
       /\ candidates[b] = result[i]

(***************************************************************************)
(* Properties of the candidate count and of empty outputs.                 *)
(***************************************************************************)
\* positions of the primary loop between picking an anchor and judging its window
PrimaryBodyPcs == {"primary_window", "primary_cap", "primary_gates", "primary_bias", "primary_final"}

\* C11: detect_highlights holds and returns at most 5 candidates: the primary
\* loop builds a window only while fewer than 5 are accepted, the backfill loop
\* never takes the count above 5, and the returned list has at most 5 entries.
C11_AtMostFive ==
  /\ Len(candidates) <= 5
  /\ Len(result) <= 5
  /\ pc \in PrimaryBodyPcs => Len(candidates) < 5

\* the primary loop has just accepted its fifth candidate while anchors it has
\* not visited remain in its queue
C11_Witness ==
  /\ pc = "primary"
  /\ Len(candidates) = 5
  /\ queue # <<>>
  /\ verdict = "accept"

\* no segment of the cleaned transcript passes the core editorial check, is a
\* punchline or starts an educational sequence
no_editorial_value(raw) ==
  LET T == clean_transcript(raw)
  IN /\ \A i \in 1..Len(T) :
          /\ ~_calculate_core_editorial_pass(T[i].text).passes
          /\ ~_is_punchline(T[i].text)
     /\ _detect_educational_sequences(T, 3) = <<>>

\* C12: for a transcript without editorial value (the empty transcript among
\* them) no window is ever built, the candidates list stays empty through both
\* passes, and detect_highlights returns the empty list; that is, in every
\* state either all of this is so or the transcript has editorial value.
C12_NothingFromFiller ==
  \/ /\ candidates = <<>>
     /\ result = <<>>
     /\ pc \in {"start", "primary", "backfill", "rank", "done"}
  \/ ~no_editorial_value(transcript)

\* detect_highlights has returned the empty list for a transcript of three
\* segments without editorial value whose top scorers were taken as fallback
\* peaks and which the backfill pass went through as well
C12_Witness ==
  /\ pc = "done"
  /\ Len(transcript) = 3
  /\ no_editorial_value(transcript)
  /\ Len(ranked_indices_of(analysis)) = 3
  /\ Len(fallback_order_of(analysis)) = 3
  /\ result = <<>>

(***************************************************************************)
(* Properties of the bias sum.                                             *)
(***************************************************************************)
\* the sum of the applicable contributions of a call: category bias, bias of
\* the duration bucket, punchline bias when is_punchline, early-hook bias when
\* hook_position <= 0.25, and the learning contributions of a non-zero learning
\* profile
applicable_bias(a) ==
  LET bp == a.bias_profile
      bucket == IF a.clip_duration < 120 THEN "<12s"
                ELSE IF a.clip_duration < 180 THEN "12-18s"
                ELSE IF a.clip_duration < 300 THEN "18-30s"
                ELSE ">30s"
  IN MapGet(bp.category_bias, a.category)
       + MapGet(bp.duration_bias, bucket)
       + (IF a.is_punchline THEN bp.punchline_bias ELSE 0)
       + (IF 4 * a.hook_position.num <= a.hook_position.den THEN bp.early_hook_bias ELSE 0)
       + (IF a.learning_profile.present /\ a.learning_profile.feedback_count # 0
          THEN SumBias(learning_biases(a)) ELSE 0)

is_rounding_of(b, num, den) ==
  /\ 2 * Abs(num - b * den) <= den
  /\ (2 * Abs(num - b * den) = den => b % 2 = 0)

\* C14: for non-negative counts _compute_bias returns 0 when accepted + rejected
\* is 0 and otherwise 3 * (accepted - rejected) / (accepted + rejected) rounded
\* to the nearest integer (halves to even); the result is an integer between -3
\* and 3, and swapping the counts negates it.
C14_ComputeBias ==
  pc = "compute_done" =>
    LET accepted == memory_call.accepted
        rejected == memory_call.rejected
    IN /\ memory_result \in -3..3
       /\ (accepted + rejected = 0 => memory_result = 0)
       /\ (accepted + rejected > 0 =>
             is_rounding_of(memory_result, 3 * (accepted - rejected), accepted + rejected))
       /\ -memory_result = _compute_bias(rejected, accepted)

\* _compute_bias(11, 1) has returned: 3 * 10 / 12 is 2.5, halfway between 2 and
\* 3, and the result is the even neighbour 2
C14_Witness ==
  /\ pc = "compute_done"
  /\ memory_call = [accepted |-> 11, rejected |-> 1]
  /\ memory_result = 2

(***************************************************************************)
(* Properties of the profile loaders.                                      *)
(***************************************************************************)
\* the call has no session, or its store holds no rows, or reading the store
\* (import, query) or going through its rows raises
nothing_to_load(call) ==
  \/ call.db_session = "None"
  \/ call.store.fault # "none"
  \/ call.store.rows = <<>>
  \/ rows_raise(call.loader, call.store.rows)

\* C15: a loader never lets an exception of the feedback store reach its
\* caller, and it returns a profile whose is_zero() is true whenever no session
\* is given, the store holds no rows, or reading or aggregating the store raises.
C15_ZeroOnFailure ==
  pc = "load_done" =>
    /\ ~memory_result.raised
    /\ nothing_to_load(memory_call) =>
         profile_is_zero(memory_call.loader, memory_result.profile)

\* load_editorial_learning_profile_async has returned a zero profile for a
\* session whose store answered the query with three rows, the first two well
\* formed and the third one raising when its duration is computed
C15_Witness ==
  /\ pc = "load_done"
  /\ memory_call.loader = "load_editorial_learning_profile_async"
  /\ memory_call.db_session = "session"
  /\ memory_call.store.fault = "none"
  /\ Len(memory_call.store.rows) = 3
  /\ ~feedback_row_raises(memory_call.store.rows[1])
  /\ ~feedback_row_raises(memory_call.store.rows[2])
  /\ feedback_row_raises(memory_call.store.rows[3])
  /\ ~memory_result.raised
  /\ memory_result.profile = ZeroLearning


(***************************************************************************)
(* Totality of detect_highlights.                                          *)
(***************************************************************************)
\* the transcript has a zero-length segment, a segment of negative duration, a
\* segment with an empty text, and a segment that starts before its predecessor
is_irregular(T) ==
  /\ \E i \in 1..Len(T) : T[i].duration = 0
  /\ \E i \in 1..Len(T) : T[i].duration < 0
  /\ \E i \in 1..Len(T) : T[i].text = <<>>
  /\ \E i \in 2..Len(T) : T[i].start < T[i - 1].start

\* C16: for every transcript, the empty one, zero-length and negative-duration
\* segments, overlapping or out-of-order segments and empty texts included,
\* detect_highlights never raises and every call returns its candidate list.
C16_Total == [](pc # "raised") /\ <>(pc = "done")

\* a call on a transcript with all these irregularities has returned a candidate
C16_Witness ==
  /\ pc = "done"
  /\ is_irregular(transcript)
  /\ result # <<>>




(***************************************************************************)
(* Two calls of detect_highlights on the same arguments.                   *)
(***************************************************************************)
\* both calls have returned
both_returned == pc = "done" /\ other # <<>> /\ other[1].pc = "done"

shared_objects == <<transcript, learning_profile, editorial_bias>>

kept_above(sorted, cutoff, min_results) ==
  LET above == SelectSeq(sorted, LAMBDA c : c.score >= cutoff)
  IN IF Len(above) >= min_results THEN above
     ELSE SubSeq(sorted, 1, Min2(Len(sorted), min_results))

hanging_start_drop == wstate.pc = "hang" /\ wstate'.l = wstate.l + 1

\* C20: the hanging-start repair drops the window's first segment only when the
\* remaining window still has a duration of at least min_duration and at least
\* 2 segments; a drop that takes the window below min_duration is never made.
C20_DropKeepsMinimum ==
  [][hanging_start_drop =>
       /\ seg_end(cleaned_transcript, wstate.r) - seg_start(cleaned_transcript, wstate.l + 1)
            >= wspec.min_duration
       /\ wstate.r - wstate.l >= 2]_vars


(***************************************************************************)
(* C21: during the minimum-duration expansion of _build_window_around the  *)
(* left edge moves only in a step where the right edge cannot move (the    *)
(* window ends at the last segment, or the next segment would end more     *)
(* than max_post_context after the anchor's end), and it never moves to a  *)
(* segment that starts more than max_pre_context before the anchor's       *)
(* start.                                                                  *)
(***************************************************************************)
right_exhausted ==
  \/ wstate.r = Len(cleaned_transcript)
  \/ seg_end(cleaned_transcript, wstate.r + 1) - seg_end(cleaned_transcript, wcenter)
       > wspec.max_post_context

left_edge_moves == wstate.pc = "pass1" /\ wstate'.l # wstate.l

C21_RightBeforeLeft ==
  [][left_edge_moves =>
       /\ wstate'.l = wstate.l - 1
       /\ wstate'.r = wstate.r
       /\ right_exhausted
       /\ seg_start(cleaned_transcript, wcenter) - seg_start(cleaned_transcript, wstate'.l)
            <= wspec.max_pre_context]_vars

\* the expansion has moved the left edge two segments before the anchor
C21_Witness ==
  /\ pc = "window" /\ wstate.pc = "pass1"
  /\ wstate.l = wcenter - 2
  /\ wstate.r = Len(cleaned_transcript)


(***************************************************************************)
(* C22: the forced resolution extension of _build_window_around adds at    *)
(* most 8 segments, all on the right; each added segment keeps the span    *)
(* of the window within max_duration + 5 s and ends no more than           *)
(* 1.5 * max_post_context after the anchor's end; and a segment is added   *)
(* only while the current last segment has an unresolved ending.           *)
(***************************************************************************)
extension_adds == wstate.pc = "extend" /\ wstate'.r # wstate.r

C22_BoundedExtension ==
  /\ [](wstate.pc = "extend" => wstate.cnt <= 8)
  /\ [][wstate.pc # "extend" /\ wstate'.pc = "extend" => wstate'.cnt = 0]_vars
  /\ [][wstate.pc = "extend" => wstate'.l = wstate.l]_vars
  /\ [][extension_adds =>
          /\ wstate'.r = wstate.r + 1
          /\ wstate'.cnt = wstate.cnt + 1
          /\ needs_extension(cleaned_transcript, wstate.r)
          /\ seg_end(cleaned_transcript, wstate'.r) - seg_start(cleaned_transcript, wstate.l)
               <= wspec.max_duration + 50
          /\ 10 * (seg_end(cleaned_transcript, wstate'.r) - seg_end(cleaned_transcript, wcenter))
               <= 15 * wspec.max_post_context]_vars

\* eight segments were added, the last one still ends unresolved, a ninth is at
\* hand within both limits, and the extension stops
C22_Witness ==
  /\ pc = "window" /\ wstate.pc = "extend" /\ wstate.cnt = 8
  /\ wstate.r < Len(cleaned_transcript)
  /\ needs_extension(cleaned_transcript, wstate.r)
  /\ extension_allowed(cleaned_transcript, wcenter, wspec, wstate)


(***************************************************************************)
(* C23: every candidate detect_highlights returns whose window text is not *)
(* educational, and every candidate at all when the learning profile sets  *)
(* require_insight_all, has at least 2 of the 3 insight components CLAIM,  *)
(* REASON, IMPLICATION in its transcript, whether the primary pass or the  *)
(* backfill pass built it.                                                 *)
(***************************************************************************)
transcript_of(c) == window_text(cleaned_transcript, window_of(c))

components_in(text) ==
  LET ic == _insight_components(text)
  IN B2I(ic.claim) + B2I(ic.reason) + B2I(ic.implication)

insight_is_required(c) ==
  \/ ~_is_educational_content(transcript_of(c))
  \/ (learning_profile.present /\ learning_profile.require_insight_all)

C23_TwoOfThree ==
  /\ \A k \in 1..Len(candidates) :
       insight_is_required(candidates[k]) => components_in(transcript_of(candidates[k])) >= 2
  /\ \A k \in 1..Len(result) :
       insight_is_required(result[k]) => components_in(transcript_of(result[k])) >= 2

\* a returned list that holds a candidate of the primary pass and a candidate of
\* the backfill pass whose window texts are not educational
C23_Witness ==
  /\ pc = "done"
  /\ \E j, k \in 1..Len(result) :
       /\ result[j].from = "primary" /\ result[k].from = "backfill"
       /\ ~_is_educational_content(transcript_of(result[j]))
       /\ ~_is_educational_content(transcript_of(result[k]))


(***************************************************************************)
(* C24: no candidate detect_highlights returns, from either pass and       *)
(* whether or not its window is educational, is built on a punchline       *)
(* anchor while its window text has a CLAIM but neither a REASON nor an    *)
(* IMPLICATION marker.                                                     *)
(***************************************************************************)
claim_alone(text) ==
  LET ic == _insight_components(text)
  IN ic.claim /\ ~(ic.reason \/ ic.implication)

bare_punchline(c) ==
  /\ _is_punchline(cleaned_transcript[c.idx].text)
  /\ claim_alone(transcript_of(c))

C24_NoBarePunchline ==
  /\ \A k \in 1..Len(candidates) : ~bare_punchline(candidates[k])
  /\ \A k \in 1..Len(result) : ~bare_punchline(result[k])


(***************************************************************************)
(* C25: every candidate whose anchor segment is a punchline has a clip     *)
(* duration (end - start, rolls included) between 8 and 18 seconds.        *)
(***************************************************************************)
punchline_anchored(c) == _is_punchline(cleaned_transcript[c.idx].text)

C25_PunchlineDuration ==
  /\ \A k \in 1..Len(candidates) :
       punchline_anchored(candidates[k])
         => 80 <= candidates[k].end - candidates[k].start
              /\ candidates[k].end - candidates[k].start <= 180
  /\ \A k \in 1..Len(result) :
       punchline_anchored(result[k])
         => 80 <= result[k].end - result[k].start /\ result[k].end - result[k].start <= 180


(***************************************************************************)
(* C26: the reasons the segment analyzer returns (_score_text through      *)
(* _compress_reasons) are at most 3, pairwise distinct, and ordered by the *)
(* fixed priority in which the declarative-claim reason outranks the       *)
(* punchline reason: when a text yields both "Pernyataan deklaratif kuat"  *)
(* and "Punchline berkualitas", the declarative reason comes first.        *)
(***************************************************************************)
returned_reasons == memory_result.reasons

position_of(r) == CHOOSE i \in 1..Len(returned_reasons) : returned_reasons[i] = r

at_most_three_distinct ==
  /\ Len(returned_reasons) <= 3
  /\ \A i, j \in 1..Len(returned_reasons) : i # j => returned_reasons[i] # returned_reasons[j]

yields_both ==
  /\ listed(returned_reasons, "Pernyataan deklaratif kuat")
  /\ listed(returned_reasons, "Punchline berkualitas")

C26_DeclarativeFirst ==
  pc = "score_done" =>
    /\ at_most_three_distinct
    /\ yields_both
         => position_of("Pernyataan deklaratif kuat") < position_of("Punchline berkualitas")

\* rank of a reason in the priority list of _compress_reasons, Len(priority) + 1
\* for a reason the list does not name
priority_rank(r) ==
  IF \E k \in 1..Len(priority) : reason_matches(r, priority[k])
  THEN CHOOSE k \in 1..Len(priority) :
         /\ reason_matches(r, priority[k])
         /\ \A m \in 1..(k - 1) : ~reason_matches(r, priority[m])
  ELSE Len(priority) + 1

\* C26 as the code has it: at most 3 pairwise distinct reasons, in the order of
\* the priority list of _compress_reasons (reasons the list does not name come
\* last); in that list the punchline reason outranks the declarative-claim
\* reason, so when a text yields both, "Punchline berkualitas" comes first.
C26_PunchlineFirst ==
  pc = "score_done" =>
    /\ at_most_three_distinct
    /\ \A i, j \in 1..Len(returned_reasons) :
         i < j => priority_rank(returned_reasons[i]) <= priority_rank(returned_reasons[j])
    /\ yields_both
         => position_of("Punchline berkualitas") < position_of("Pernyataan deklaratif kuat")

\* a text that yields more than 3 reasons, the declarative-claim reason and the
\* punchline reason among them, has been analyzed
C26_Witness ==
  /\ pc = "score_done"
  /\ Len(deduped_of(score_reasons(memory_call.text), <<>>)) > 3
  /\ yields_both


(***************************************************************************)
(* C27: for every finite transcript detect_highlights terminates: every    *)
(* loop of _build_window_around (minimum-duration expansion, opportunistic *)
(* growth, forced insight completion, left and right trimming,             *)
(* hanging-start repair, forced resolution extension, educational floor)   *)
(* and the scan of _detect_educational_sequences either moves an index     *)
(* towards a bound or stops, so the engine always reaches its return.      *)
(***************************************************************************)
PassOrder ==
  << "pass1", "pass2", "insight", "force", "trim_left", "trim_right", "hang_check", "hang",
     "extend", "edu_check", "edu_floor", "final", "done" >>

pass_rank(p) == CHOOSE i \in 1..Len(PassOrder) : PassOrder[i] = p

\* what is left for the loop at w.pc to do: segments the moving edge can still
\* take, or iterations the loop's counter still allows
loop_variant(T, w) ==
  CASE w.pc = "pass1" -> (Len(T) - w.r) + (w.l - 1)
    [] w.pc = "pass2" -> 6 - w.cnt
    [] w.pc \in {"force", "extend", "edu_floor"} -> Len(T) - w.r
    [] w.pc \in {"trim_left", "trim_right", "hang"} -> w.r - w.l
    [] OTHER -> 0

window_runs == wstate.pc \notin {"idle", "done"}

window_progress ==
  window_runs =>
    \/ pass_rank(wstate'.pc) > pass_rank(wstate.pc)
    \/ /\ wstate'.pc = wstate.pc
       /\ loop_variant(cleaned_transcript, wstate') < loop_variant(cleaned_transcript, wstate)
       /\ loop_variant(cleaned_transcript, wstate') >= 0

\* the inner scan of _detect_educational_sequences stops after the segment it
\* started from, at most 8 segments later and at most one past the last one,
\* so the outer scan, which goes on from there or from i + 1, moves forward
scan_advances ==
  \A i \in 1..Len(cleaned_transcript) :
    LET j == edu_sequence_end(cleaned_transcript, i, i + 1)
    IN i < j /\ j <= i + 8 /\ j <= Len(cleaned_transcript) + 1

C27_Terminates ==
  /\ [][window_progress]_vars
  /\ [](scan_advances)
  /\ <>(pc = "done")

\* the call has returned after a window whose loops moved both edges
C27_Witness ==
  /\ pc = "done"
  /\ Len(cleaned_transcript) = 3
  /\ wstate.pc = "done" /\ wstate.l < wcenter /\ wcenter < wstate.r

(***************************************************************************)
(* C28: in every state of _build_window_around the window is a non-empty   *)
(* contiguous run of segments of the transcript, first <= l <= r <= last   *)
(* (whatever centre index the call was given), and the timestamps it       *)
(* returns satisfy 0 <= start < end for any segment starts and durations,  *)
(* zero and negative durations included.                                   *)
(***************************************************************************)
CentreArguments == (0 - 1)..(Len(cleaned_transcript) + 2)

window_in_range(w) == 1 <= w.l /\ w.l <= w.r /\ w.r <= Len(cleaned_transcript)

clamp_fired ==
  seg_end(cleaned_transcript, window.r) + wspec.post_roll <= window.start

C28_WindowInvariant ==
  /\ wstate.pc # "idle" =>
       /\ window_in_range(wstate)
       /\ \A ci \in CentreArguments : window_in_range(WInit(cleaned_transcript, ci))
  /\ pc = "window_done" =>
       /\ window.l = wstate.l /\ window.r = wstate.r
       /\ 0 <= window.start /\ window.start < window.end

\* a window over a segment of negative duration, whose end was put one
\* second after its start
C28_Witness ==
  /\ pc = "window_done"
  /\ cleaned_transcript[window.r].duration < 0
  /\ clamp_fired
  /\ window.end = window.start + 10

(***************************************************************************)
(* C29: for every anchor text and every learning profile, the window       *)
(* profile returned by _dynamic_window_profile satisfies                   *)
(* default_min <= min_duration <= max_duration <= default_max for the      *)
(* anchor's category (the learning deltas only raise the minimum and only  *)
(* lower the maximum, and never make them cross), and max_pre_context and  *)
(* max_post_context are never below the category's floor.                  *)
(***************************************************************************)
anchor_key == profile_key(memory_call.anchor_text)

delta_of(field) == MapGet(memory_call.learning_profile[field], anchor_key)

C29_ProfileBounds ==
  pc = "profile_done" =>
    /\ base_profile(anchor_key).min_duration <= memory_result.min_duration
    /\ memory_result.min_duration <= memory_result.max_duration
    /\ memory_result.max_duration <= base_profile(anchor_key).max_duration
    /\ memory_result.max_pre_context >= pre_context_floor(anchor_key)
    /\ memory_result.max_post_context >= post_context_floor(anchor_key)

\* deltas that would make the minimum pass the maximum and the contexts pass
\* their floors: the minimum stops at the table's maximum and the contexts at
\* the floors
C29_Witness ==
  /\ pc = "profile_done"
  /\ learning_active(memory_call.learning_profile)
  /\ base_profile(anchor_key).min_duration + delta_of("min_duration_delta_by_category")
       > base_profile(anchor_key).max_duration
  /\ delta_of("max_duration_delta_by_category") < 0
  /\ delta_of("max_pre_context_delta_by_category") < 0
  /\ delta_of("max_post_context_delta_by_category") < 0
  /\ memory_result.min_duration = base_profile(anchor_key).max_duration
  /\ memory_result.max_duration = memory_result.min_duration
  /\ memory_result.max_pre_context = pre_context_floor(anchor_key)
  /\ memory_result.max_post_context = post_context_floor(anchor_key)

(***************************************************************************)
(* C30: if at least one candidate has been accepted before the final       *)
(* cutoff, detect_highlights returns a non-empty list whose first element  *)
(* has the maximum score among the accepted candidates: the dynamic cutoff *)
(* never removes the best candidate, even when the best score is below 6.  *)
(***************************************************************************)
accepted_scores == {candidates[k].score : k \in 1..Len(candidates)}

best_accepted_score == CHOOSE s \in accepted_scores : \A t \in accepted_scores : t <= s

C30_BestSurvives ==
  (pc = "done" /\ candidates # <<>>) =>
    /\ result # <<>>
    /\ result[1].score = best_accepted_score
    /\ \E k \in 1..Len(candidates) : result[1] = candidates[k]

\* every accepted candidate is below the fixed cutoff of 6, and the call
\* returns one of the best and drops the others
C30_Witness ==
  /\ pc = "done"
  /\ Len(candidates) >= 2
  /\ best_accepted_score < 6
  /\ Len(result) < Len(candidates)
  /\ result[1].score = best_accepted_score

====
